---- MODULE Spec2Model ----
(***************************************************************************)
(* Daily import, reconciliation, anomaly scan and insight generation of    *)
(* reports/services.py, over the tables of reports/models.py.              *)
(*                                                                         *)
(* Tables are sets of rows.  A provider payload is kept as a value so that *)
(* the raw columns can be compared.  A JSON scalar is a tagged pair, so    *)
(* that Python's truthiness, int(), float() and str() can be modelled by   *)
(* what they do on each kind of value.                                     *)
(***************************************************************************)
EXTENDS Integers, Sequences, FiniteSets, TLC

VARIABLES
    transactions,          \* Transaction rows
    spots,                 \* Spot rows
    paymentsReports,       \* PaymentsReport rows
    productsSalesReports,  \* ProductsSalesReport rows
    spotsSalesReports,     \* SpotsSalesReport rows
    dailyReports,          \* DailyReport rows
    dataIssues,            \* DataIssue rows
    insights,              \* Insight rows
    nextIssueId,           \* next primary key of DataIssue
    nextInsightId,         \* next primary key of Insight
    running,               \* the import_daily calls in progress, by importer
    writer,                \* which importer upserted each row last
    scanning,              \* the scan_anomalies call in progress
    last,                  \* the call that ran last: arguments, locals, outcome
    ops                    \* number of calls made so far

vars == <<transactions, spots, paymentsReports, productsSalesReports,
          spotsSalesReports, dailyReports, dataIssues, insights,
          nextIssueId, nextInsightId, running, writer, scanning, last, ops>>

----------------------------------------------------------------------------
(* Bounds of the model *)

\* calendar dates are the days 1..MaxDate since the epoch
MaxDate == 2
\* calls per behaviour of the pipeline specification
MaxOps == 4
\* imports per behaviour of the fetch-failure specification
MaxImports == 2
\* amounts of the reconciliation inputs range over -MaxAmount..MaxAmount
MaxAmount == 3

Dates == 1..MaxDate

----------------------------------------------------------------------------
(* JSON scalars *)

JNull == [t |-> "null", v |-> 0]
\* a JSON integer
JInt(n) == [t |-> "int", v |-> n]
\* a JSON string that holds the decimal integer n, such as "12"
JNumStr(n) == [t |-> "numstr", v |-> n]
\* a JSON string that is no number: k = 0 is the empty string
JStr(k) == [t |-> "str", v |-> k]
\* a JSON number with a fraction: k eighths, exact in binary floating point
JDec(k) == [t |-> "dec8", v |-> k]

Abs(n) == IF n < 0 THEN -n ELSE n

\* a / b rounded toward zero: Python's int(a / b) while a / b is exact enough
TruncDiv(a, b) ==
    IF (a >= 0) = (b > 0) THEN Abs(a) \div Abs(b) ELSE -(Abs(a) \div Abs(b))

\* n / d (d > 0) rounded to the nearest integer, halves to the even one:
\* Python 3's round()
RoundHalfEven(n, d) ==
    LET q == n \div d
        r == n - q * d
    IN  IF 2 * r < d THEN q
        ELSE IF 2 * r > d THEN q + 1
        ELSE IF q % 2 = 0 THEN q ELSE q + 1

\* bool(value)
Truthy(j) ==
    CASE j.t = "null" -> FALSE
      [] j.t = "numstr" -> TRUE
      [] OTHER -> j.v # 0

\* value_a or value_b
Or2(a, b) == IF Truthy(a) THEN a ELSE b

\* whether int(value) succeeds
IntOk(j) == j.t \in {"int", "numstr", "dec8"}

\* int(value), where it succeeds
IntOf(j) == IF j.t = "dec8" THEN TruncDiv(j.v, 8) ELSE j.v

_safe_int(j) == IF IntOk(j) THEN IntOf(j) ELSE 0

\* whether float(value) succeeds
FloatOk(j) == j.t \in {"int", "numstr", "dec8"}

\* float(value) in eighths
Float8(j) == IF j.t = "dec8" THEN j.v ELSE 8 * j.v

\* int(float8 / 8 * 100), without round()
ToMinorUnits_truncated(f8) == TruncDiv(25 * f8, 2)

\* int(round(float8 / 8 * 100))
ToMinorUnits(f8) == RoundHalfEven(25 * f8, 2)

\* str(value or ""): the text of a CharField
StrOrEmpty(j) ==
    CASE ~Truthy(j) -> JStr(0)
      [] j.t = "int" -> JNumStr(j.v)
      [] OTHER -> j

----------------------------------------------------------------------------
(* Timestamps *)

MsPerDay == 24 * 60 * 60 * 1000

NoneTs == [some |-> FALSE, ms |-> 0]

_parse_ms(j) ==
    IF ~IntOk(j) THEN NoneTs
    ELSE IF IntOf(j) <= 0 THEN NoneTs
    ELSE [some |-> TRUE, ms |-> IntOf(j)]

\* a transaction without a start taken for one of every date
OnDate_orAbsent(ts, d) == ~ts.some \/ ts.ms \div MsPerDay = d

\* date_start__date = report_date, in UTC
OnDate(ts, d) == ts.some /\ ts.ms \div MsPerDay = d

----------------------------------------------------------------------------
(* Rows and upserts *)

\* the primary key an INSERT gets: rows of these tables are never deleted
NextPk(tbl) ==
    IF tbl = {} THEN 1
    ELSE 1 + (CHOOSE n \in {r.id : r \in tbl} : \A r \in tbl : r.id <= n)

\* objects.create in place of update_or_create
UpsertTransaction_create(tbl, row) ==
    tbl \cup {[row EXCEPT !.id = NextPk(tbl)]}

\* delete and insert in place of update
UpsertTransaction_reinsert(tbl, row) ==
    {r \in tbl : r.transaction_id # row.transaction_id}
    \cup {[row EXCEPT !.id = NextPk(tbl)]}

\* Transaction.objects.update_or_create(transaction_id=..., defaults=...):
\* the row with that identifier takes the defaults and keeps its primary
\* key, or a new row is inserted
UpsertTransaction(tbl, row) ==
    IF \E r \in tbl : r.transaction_id = row.transaction_id
    THEN {IF r.transaction_id = row.transaction_id
          THEN [row EXCEPT !.id = r.id] ELSE r : r \in tbl}
    ELSE tbl \cup {[row EXCEPT !.id = NextPk(tbl)]}

\* Spot.objects.update_or_create(spot_id=..., defaults={"name": ...})
UpsertSpot(tbl, row) ==
    {r \in tbl : r.spot_id # row.spot_id} \cup {row}

\* objects.create in place of update_or_create
UpsertByDate_create(tbl, row) == tbl \cup {row}

\* <Report>.objects.update_or_create(date=..., defaults=...)
UpsertByDate(tbl, row) ==
    {r \in tbl : r.date # row.date} \cup {row}

\* the columns of a Transaction row that the services read, from one entry
\* of the transactions response
TransactionRow(item) ==
    [id |-> 0,
     transaction_id |-> StrOrEmpty(item.transaction_id),
     date_start |-> _parse_ms(item.date_start),
     status |-> _safe_int(item.status),
     sum |-> _safe_int(item.sum),
     payed_sum |-> _safe_int(item.payed_sum),
     payed_cash |-> _safe_int(item.payed_cash),
     payed_card |-> _safe_int(item.payed_card),
     payed_bonus |-> _safe_int(item.payed_bonus),
     payed_third_party |-> _safe_int(item.payed_third_party),
     payed_cert |-> _safe_int(item.payed_cert),
     spot_id |-> StrOrEmpty(item.spot_id),
     raw |-> item]

----------------------------------------------------------------------------
(* Payloads *)

\* {}: what an optional fetch that failed or was not made leaves behind
EmptyDict == [top |-> "empty", rkind |-> "none", agg |-> <<>>, rows |-> <<>>]

\* a fetch: st is "ok", "APIError" (client.get raised PosterAPIError) or
\* "none" (the call was not made)
Fetched(data) == [st |-> "ok", data |-> data]
Failed == [st |-> "APIError", data |-> EmptyDict]
NotFetched == [st |-> "none", data |-> EmptyDict]

_extract_transactions(data) ==
    IF data.top = "dict" /\ data.rkind = "list" THEN data.rows ELSE <<>>

RECURSIVE SumOf(_, _)
\* sum(f(x) for x in seq), f given as a sequence of the values
SumOf(seq, i) == IF i > Len(seq) THEN 0 ELSE seq[i] + SumOf(seq, i + 1)

\* revenue // transactions_count in place of int(revenue / transactions_count)
AvgCheck_floor(revenue, transactions_count) ==
    IF transactions_count > 0 THEN revenue \div transactions_count
    ELSE IF transactions_count < 0 THEN (-revenue) \div (-transactions_count)
    ELSE 0

\* int(revenue / transactions_count) if transactions_count else 0
AvgCheck(revenue, transactions_count) ==
    IF transactions_count # 0 THEN TruncDiv(revenue, transactions_count) ELSE 0

\* the figures from the entries that carry an identifier
RawFigures_identified(items) ==
    LET kept == SelectSeq(items,
                    LAMBDA item : StrOrEmpty(item.transaction_id) # JStr(0))
        transactions_count == Len(kept)
        revenue == SumOf([i \in 1..Len(kept) |-> _safe_int(kept[i].sum)], 1)
    IN  [transactions_count |-> transactions_count,
         revenue |-> revenue,
         avg_check |-> AvgCheck(revenue, transactions_count),
         error |-> "none"]

\* lines 99-102: the figures from the transactions list
RawFigures(items) ==
    LET transactions_count == Len(items)
        revenue == SumOf([i \in 1..Len(items) |-> _safe_int(items[i].sum)], 1)
    IN  [transactions_count |-> transactions_count,
         revenue |-> revenue,
         avg_check |-> AvgCheck(revenue, transactions_count),
         error |-> "none"]

\* lines 147-160: the aggregate dict, amounts in major units
ReconcileDict(agg, figures) ==
    IF ~FloatOk(Or2(agg.revenue, JInt(0)))
    THEN [figures EXCEPT !.error = "ValueError"]
    ELSE
    LET total_revenue_eur == Float8(Or2(agg.revenue, JInt(0)))
        total_tx == _safe_int(Or2(agg.clients, agg.transactions_count))
        revenue == ToMinorUnits(total_revenue_eur)
    IN  IF total_revenue_eur >= 0
        THEN [transactions_count |-> total_tx,
              revenue |-> revenue,
              avg_check |->
                  IF agg.middle_invoice # JNull /\ FloatOk(agg.middle_invoice)
                  THEN ToMinorUnits(Float8(agg.middle_invoice))
                  ELSE AvgCheck(revenue, total_tx),
              error |-> "none"]
        ELSE figures

\* isinstance(row, dict): an entry that is no dict has none of the keys
IsDictRow(row) == "spot_id" \in DOMAIN row

\* the list of rows taken whatever the sign of its total
ReconcileList_unguarded(rows, figures) ==
    LET total_revenue ==
            SumOf([i \in 1..Len(rows) |->
                      _safe_int(Or2(rows[i].revenue, rows[i].sum))], 1)
        total_tx ==
            SumOf([i \in 1..Len(rows) |->
                      _safe_int(Or2(Or2(rows[i].transactions_count, rows[i].count),
                                    rows[i].clients))], 1)
    IN  [transactions_count |-> total_tx,
         revenue |-> total_revenue,
         avg_check |-> AvgCheck(total_revenue, total_tx),
         error |-> "none"]

\* lines 162-171: the list of per-location rows, amounts in minor units
ReconcileList(rows, figures) ==
    LET total_revenue ==
            SumOf([i \in 1..Len(rows) |->
                      _safe_int(Or2(rows[i].revenue, rows[i].sum))], 1)
        total_tx ==
            SumOf([i \in 1..Len(rows) |->
                      _safe_int(Or2(Or2(rows[i].transactions_count, rows[i].count),
                                    rows[i].clients))], 1)
    IN  IF total_revenue >= 0
        THEN [transactions_count |-> total_tx,
              revenue |-> total_revenue,
              avg_check |-> AvgCheck(total_revenue, total_tx),
              error |-> "none"]
        ELSE figures

\* the aggregate dict taken without the test that its revenue is not None
Reconcile_nullRevenueTaken(spots_sales, figures) ==
    IF spots_sales.top \in {"empty", "dict"}
    THEN IF spots_sales.rkind = "dict"
         THEN ReconcileDict(spots_sales.agg, figures)
         ELSE IF spots_sales.rkind = "list"
         THEN IF \E i \in 1..Len(spots_sales.rows) : ~IsDictRow(spots_sales.rows[i])
              THEN [figures EXCEPT !.error = "AttributeError"]
              ELSE ReconcileList(spots_sales.rows, figures)
         ELSE figures
    ELSE figures

\* lines 143-171
Reconcile(spots_sales, figures) ==
    IF spots_sales.top \in {"empty", "dict"}
    THEN IF spots_sales.rkind = "dict" /\ spots_sales.agg.revenue # JNull
         THEN ReconcileDict(spots_sales.agg, figures)
         ELSE IF spots_sales.rkind = "list"
         THEN IF \E i \in 1..Len(spots_sales.rows) : ~IsDictRow(spots_sales.rows[i])
              THEN [figures EXCEPT !.error = "AttributeError"]
              ELSE ReconcileList(spots_sales.rows, figures)
         ELSE figures
    ELSE figures

----------------------------------------------------------------------------
(* import_daily *)

\* only the transactions fetch left unguarded
FetchError_transactionsOnly(resp) ==
    IF resp.tx.st = "APIError" THEN "APIError" ELSE "none"

\* no fetch guarded
FetchError_anyFetch(resp) ==
    IF \/ resp.tx.st = "APIError" \/ resp.pay.st = "APIError"
       \/ resp.prod.st = "APIError" \/ resp.spots_sales.st = "APIError"
       \/ resp.spots.st = "APIError"
    THEN "APIError" ELSE "none"

\* lines 58-97: the exception that escapes the five fetches.  The two
\* required fetches are made first and are not guarded; the three optional
\* ones are inside try/except PosterAPIError.
FetchError(resp) ==
    IF resp.tx.st = "APIError" \/ resp.pay.st = "APIError"
    THEN "APIError" ELSE "none"

\* lines 67-85: the payload an optional fetch leaves in its local
OptionalPayload(requested, fetch) ==
    IF requested /\ fetch.st = "ok" THEN fetch.data ELSE EmptyDict

RECURSIVE DictPrefix(_)
\* the entries a loop visits before row.get raises on one that is no dict
DictPrefix(rows) ==
    IF rows = <<>> \/ ~IsDictRow(Head(rows)) THEN <<>>
    ELSE <<Head(rows)>> \o DictPrefix(Tail(rows))

\* lines 90-91, 101, 105: .get called on a list entry that is no dict
EntryError(data) ==
    IF data.top = "dict" /\ data.rkind = "list"
       /\ \E i \in 1..Len(data.rows) : ~IsDictRow(data.rows[i])
    THEN "AttributeError" ELSE "none"

\* lines 88-95: the Spot upserts of the location directory
SpotWrites(fetch) ==
    IF fetch.st = "ok" /\ fetch.data.top = "dict" /\ fetch.data.rkind = "list"
    THEN LET named == SelectSeq(DictPrefix(fetch.data.rows),
                          LAMBDA row : /\ StrOrEmpty(row.spot_id) # JStr(0)
                                       /\ StrOrEmpty(row.name) # JStr(0))
         IN  [i \in 1..Len(named) |->
                 [tbl |-> "Spot",
                  row |-> [spot_id |-> StrOrEmpty(named[i].spot_id),
                           name |-> StrOrEmpty(named[i].name)]]]
    ELSE <<>>

\* lines 104-129: one Transaction upsert per entry that has an identifier
TransactionWrites(items) ==
    LET kept == SelectSeq(items,
                    LAMBDA item : StrOrEmpty(item.transaction_id) # JStr(0))
    IN  [i \in 1..Len(kept) |->
            [tbl |-> "Transaction", row |-> TransactionRow(kept[i])]]

\* the three reports upserted whatever their payload
ReportWrites_always(d, payments, products_sales, spots_sales) ==
    <<[tbl |-> "PaymentsReport", row |-> [date |-> d, raw |-> payments]],
      [tbl |-> "ProductsSalesReport", row |-> [date |-> d, raw |-> products_sales]],
      [tbl |-> "SpotsSalesReport", row |-> [date |-> d, raw |-> spots_sales]]>>

\* lines 131-141: the three aggregate reports
ReportWrites(d, payments, products_sales, spots_sales) ==
    <<[tbl |-> "PaymentsReport", row |-> [date |-> d, raw |-> payments]]>>
    \o (IF products_sales.top # "empty"
        THEN <<[tbl |-> "ProductsSalesReport",
                row |-> [date |-> d, raw |-> products_sales]]>>
        ELSE <<>>)
    \o (IF spots_sales.top # "empty"
        THEN <<[tbl |-> "SpotsSalesReport",
                row |-> [date |-> d, raw |-> spots_sales]]>>
        ELSE <<>>)

\* lines 173-183
DailyReportRow(d, figures, transactions_data, payments, products_sales) ==
    [date |-> d,
     transactions_count |-> figures.transactions_count,
     revenue |-> figures.revenue,
     avg_check |-> figures.avg_check,
     raw_transactions |-> transactions_data,
     raw_payments |-> payments,
     raw_products_sales |-> products_sales]

\* the DailyReport upserted before the other rows
ImportRun_reportFirst(d, resp) ==
    IF FetchError(resp) # "none"
    THEN [writes |-> <<>>, result |-> FetchError(resp), returned |-> 0]
    ELSE
    LET products_sales ==
            OptionalPayload(resp.include_products_sales, resp.prod)
        spots_sales == OptionalPayload(TRUE, resp.spots_sales)
        items == _extract_transactions(resp.tx.data)
        figures == Reconcile(spots_sales, RawFigures(items))
        before == SpotWrites(resp.spots)
                  \o TransactionWrites(items)
                  \o ReportWrites(d, resp.pay.data, products_sales, spots_sales)
    IN  IF resp.spots.st = "ok" /\ EntryError(resp.spots.data) # "none"
        THEN [writes |-> SpotWrites(resp.spots),
              result |-> EntryError(resp.spots.data), returned |-> 0]
        ELSE IF EntryError(resp.tx.data) # "none"
        THEN [writes |-> SpotWrites(resp.spots),
              result |-> EntryError(resp.tx.data), returned |-> 0]
        ELSE IF figures.error # "none"
        THEN [writes |-> before, result |-> figures.error, returned |-> 0]
        ELSE [writes |-> <<[tbl |-> "DailyReport",
                            row |-> DailyReportRow(d, figures, resp.tx.data,
                                        resp.pay.data, products_sales)]>>
                         \o before,
              result |-> "ok",
              returned |-> figures.transactions_count]

\* one call of import_daily: the rows it writes, in order, how it ends and
\* what it returns
ImportRun(d, resp) ==
    IF FetchError(resp) # "none"
    THEN [writes |-> <<>>, result |-> FetchError(resp), returned |-> 0]
    ELSE
    LET products_sales ==
            OptionalPayload(resp.include_products_sales, resp.prod)
        spots_sales == OptionalPayload(TRUE, resp.spots_sales)
        items == _extract_transactions(resp.tx.data)
        figures == Reconcile(spots_sales, RawFigures(items))
        before == SpotWrites(resp.spots)
                  \o TransactionWrites(items)
                  \o ReportWrites(d, resp.pay.data, products_sales, spots_sales)
    IN  IF resp.spots.st = "ok" /\ EntryError(resp.spots.data) # "none"
        THEN [writes |-> SpotWrites(resp.spots),
              result |-> EntryError(resp.spots.data), returned |-> 0]
        ELSE IF EntryError(resp.tx.data) # "none"
        THEN [writes |-> SpotWrites(resp.spots),
              result |-> EntryError(resp.tx.data), returned |-> 0]
        ELSE IF figures.error # "none"
        THEN [writes |-> before, result |-> figures.error, returned |-> 0]
        ELSE [writes |-> before \o
                         <<[tbl |-> "DailyReport",
                            row |-> DailyReportRow(d, figures, resp.tx.data,
                                        resp.pay.data, products_sales)]>>,
              result |-> "ok",
              returned |-> figures.transactions_count]

\* the tables import_daily writes
Store ==
    [transactions |-> transactions, spots |-> spots,
     paymentsReports |-> paymentsReports,
     productsSalesReports |-> productsSalesReports,
     spotsSalesReports |-> spotsSalesReports,
     dailyReports |-> dailyReports]

ApplyWrite(s, w) ==
    CASE w.tbl = "Spot" -> [s EXCEPT !.spots = UpsertSpot(@, w.row)]
      [] w.tbl = "Transaction" ->
            [s EXCEPT !.transactions = UpsertTransaction(@, w.row)]
      [] w.tbl = "PaymentsReport" ->
            [s EXCEPT !.paymentsReports = UpsertByDate(@, w.row)]
      [] w.tbl = "ProductsSalesReport" ->
            [s EXCEPT !.productsSalesReports = UpsertByDate(@, w.row)]
      [] w.tbl = "SpotsSalesReport" ->
            [s EXCEPT !.spotsSalesReports = UpsertByDate(@, w.row)]
      [] w.tbl = "DailyReport" ->
            [s EXCEPT !.dailyReports = UpsertByDate(@, w.row)]

RECURSIVE ApplyWrites(_, _, _)
ApplyWrites(s, writes, i) ==
    IF i > Len(writes) THEN s
    ELSE ApplyWrites(ApplyWrite(s, writes[i]), writes, i + 1)

\* the response of a call that is no import
NoResp ==
    [tx |-> NotFetched, pay |-> NotFetched, include_products_sales |-> FALSE,
     prod |-> NotFetched, spots_sales |-> NotFetched, spots |-> NotFetched]

\* the tables of an empty database
EmptyStore ==
    [transactions |-> {}, spots |-> {}, paymentsReports |-> {},
     productsSalesReports |-> {}, spotsSalesReports |-> {}, dailyReports |-> {}]

\* models.py lines 157-172: the columns of a TelegramSettings row that the
\* issue alerts read; no row reads as one without chats
NoTelegram == [chat_ids |-> "", notify_issue_types |-> {}]

\* the arguments of a dashboard import that was not made
NoRange == [date_from |-> 0, date_to |-> 0, account |-> FALSE, resps |-> <<>>,
            telegram |-> NoTelegram]

\* no report text was built
NoText ==
    [kind |-> "none", date |-> 0, metrics |-> <<>>, spots_shown |-> FALSE,
     spots |-> {}, issues |-> <<>>, more |-> 0]

\* the arguments of a report text call that were left out
NoConfig == [kind |-> "none", metrics |-> <<>>]

\* poster_client.py lines 19-23: a client; an absent value is the empty string
NoClient == [base_url |-> "", token |-> "", auth_style |-> ""]

\* the HTTP side of a call: the number of times requests.request was
\* called, where the credential was put, and what the transport did
NoHttp == [calls |-> 0, auth |-> "none", outcome |-> "none"]

\* retry: the call repeats a call that crashed; crashed_after: the number of
\* upserts that call had made; expected: the tables as that call would have
\* left them, had it run to its end
NoCall ==
    [op |-> "none", date |-> 0, resp |-> NoResp, result |-> "ok",
     returned |-> 0, repeat |-> FALSE, existing_ignored |-> {},
     issues |-> {}, issue |-> 0, retry |-> FALSE, crashed_after |-> 0,
     expected |-> EmptyStore, summary |-> {}, client |-> NoClient,
     http |-> NoHttp, config |-> NoConfig, text |-> NoText,
     range |-> NoRange, trace |-> <<>>]

ImportDaily(d, resp) ==
    LET run == ImportRun(d, resp)
        s == ApplyWrites(Store, run.writes, 1)
    IN  /\ transactions' = s.transactions
        /\ spots' = s.spots
        /\ paymentsReports' = s.paymentsReports
        /\ productsSalesReports' = s.productsSalesReports
        /\ spotsSalesReports' = s.spotsSalesReports
        /\ dailyReports' = s.dailyReports
        /\ last' = [NoCall EXCEPT
                       !.op = "import", !.date = d, !.resp = resp,
                       !.result = run.result, !.returned = run.returned,
                       !.repeat = (last.op = "import" /\ last.date = d
                                   /\ last.resp = resp)]
        /\ ops' = ops + 1
        /\ UNCHANGED <<dataIssues, insights, nextIssueId, nextInsightId,
                       running, writer, scanning>>

----------------------------------------------------------------------------
(* import_daily, one upsert at a time *)

\* the importers that may run at the same time
Importers == {1, 2}

\* an importer that has made no call
Idle ==
    [st |-> "idle", date |-> 0, resp |-> NoResp, writes |-> <<>>, pc |-> 1,
     result |-> "ok", returned |-> 0, retry |-> FALSE, crashed_after |-> 0,
     expected |-> EmptyStore]

\* the column update_or_create looks a row up by
WriteKey(w) ==
    CASE w.tbl = "Spot" -> w.row.spot_id
      [] w.tbl = "Transaction" -> w.row.transaction_id
      [] OTHER -> JInt(w.row.date)

\* lines 58-102 of a call: the fetches are made and the figures computed; the
\* upserts of lines 95 and 104-183 are still to come, in the order of the code
StartImport(p, d, resp) ==
    LET run == ImportRun(d, resp)
        retry == last.op = "crash" /\ last.date = d /\ last.resp = resp
    IN  /\ running[p].st # "writing"
        /\ IF run.result = "APIError"
           THEN /\ last' = [NoCall EXCEPT
                               !.op = "import", !.date = d, !.resp = resp,
                               !.result = run.result, !.retry = retry]
                /\ ops' = ops + 1
                /\ UNCHANGED running
           ELSE /\ running' =
                     [running EXCEPT ![p] =
                         [st |-> "writing", date |-> d, resp |-> resp,
                          writes |-> run.writes, pc |-> 1,
                          result |-> run.result, returned |-> run.returned,
                          retry |-> retry,
                          crashed_after |-> IF retry THEN last.crashed_after ELSE 0,
                          expected |-> IF retry THEN last.expected
                                       ELSE ApplyWrites(Store, run.writes, 1)]]
                /\ UNCHANGED <<last, ops>>
        /\ UNCHANGED <<transactions, spots, paymentsReports, productsSalesReports,
                       spotsSalesReports, dailyReports, dataIssues, insights,
                       nextIssueId, nextInsightId, writer, scanning>>

\* one update_or_create: a single-row read-modify-write
StepImport(p) ==
    LET run == running[p]
        w == run.writes[run.pc]
        s == ApplyWrite(Store, w)
    IN  /\ run.st = "writing" /\ run.pc <= Len(run.writes)
        /\ transactions' = s.transactions
        /\ spots' = s.spots
        /\ paymentsReports' = s.paymentsReports
        /\ productsSalesReports' = s.productsSalesReports
        /\ spotsSalesReports' = s.spotsSalesReports
        /\ dailyReports' = s.dailyReports
        /\ running' = [running EXCEPT ![p].pc = run.pc + 1]
        /\ writer' = {x \in writer : ~(x.tbl = w.tbl /\ x.key = WriteKey(w))}
                     \cup {[tbl |-> w.tbl, key |-> WriteKey(w), run |-> p]}
        /\ UNCHANGED <<dataIssues, insights, nextIssueId, nextInsightId,
                       scanning, last, ops>>

\* line 185, or the exception of line 148 leaving the call
FinishImport(p) ==
    LET run == running[p]
    IN  /\ run.st = "writing" /\ run.pc > Len(run.writes)
        /\ running' = [running EXCEPT ![p].st = "done"]
        /\ last' = [NoCall EXCEPT
                       !.op = "import", !.date = run.date, !.resp = run.resp,
                       !.result = run.result, !.returned = run.returned,
                       !.retry = run.retry,
                       !.crashed_after = run.crashed_after,
                       !.expected = run.expected]
        /\ ops' = ops + 1
        /\ UNCHANGED <<transactions, spots, paymentsReports, productsSalesReports,
                       spotsSalesReports, dailyReports, dataIssues, insights,
                       nextIssueId, nextInsightId, writer, scanning>>

\* the process dies between two upserts: no multi-row transaction wraps them
CrashImport(p) ==
    LET run == running[p]
    IN  /\ run.st = "writing"
        /\ running' = [running EXCEPT ![p].st = "crashed"]
        /\ last' = [NoCall EXCEPT
                       !.op = "crash", !.date = run.date, !.resp = run.resp,
                       !.result = "crash", !.retry = run.retry,
                       !.crashed_after = run.pc - 1,
                       !.expected = run.expected]
        /\ ops' = ops + 1
        /\ UNCHANGED <<transactions, spots, paymentsReports, productsSalesReports,
                       spotsSalesReports, dailyReports, dataIssues, insights,
                       nextIssueId, nextInsightId, writer, scanning>>

----------------------------------------------------------------------------
(* scan_anomalies *)

RECURSIVE ByPk(_)
\* the rows of a queryset without order_by, taken in primary-key order
ByPk(S) ==
    IF S = {} THEN <<>>
    ELSE LET x == CHOOSE x \in S : \A y \in S : x.id <= y.id
         IN  <<x>> \o ByPk(S \ {x})

\* lines 190-196: the (issue_type, context transaction_id) pairs of the
\* ignored issues of the date; a context without transaction_id gives None
ExistingIgnored(issues, d) ==
    {<<i.issue_type, i.tx>> : i \in {r \in issues : r.date = d /\ r.ignored}}

\* line 200
ZeroOrNegativeSum(tx) == tx.status = 2 /\ tx.sum <= 0

\* only cash and card added up
PaymentMismatch_cashAndCard(tx) ==
    /\ tx.payed_sum > 0
    /\ tx.payed_cash + tx.payed_card # tx.payed_sum

\* lines 212-220
PaymentMismatch(tx) ==
    /\ tx.payed_sum > 0
    /\ tx.payed_cash + tx.payed_card + tx.payed_bonus
         + tx.payed_third_party + tx.payed_cert # tx.payed_sum

\* lines 236-245: the raw payload has a history entry of a table transfer
TableMoved(tx) == tx.raw.history_move

\* a DataIssue not yet saved (id 0)
NewIssue(d, type, severity, tx) ==
    [id |-> 0, date |-> d, issue_type |-> type, severity |-> severity,
     tx |-> tx, ignored |-> FALSE]

\* the issues of one transaction, the ignore set not consulted
TransactionIssues_noDedup(d, tx, existing_ignored) ==
    (IF ZeroOrNegativeSum(tx)
     THEN <<NewIssue(d, "zero_or_negative_sum", 2, tx.transaction_id)>>
     ELSE <<>>)
    \o (IF PaymentMismatch(tx)
        THEN <<NewIssue(d, "payment_mismatch", 2, tx.transaction_id)>>
        ELSE <<>>)
    \o (IF TableMoved(tx)
        THEN <<NewIssue(d, "table_move", 1, tx.transaction_id)>>
        ELSE <<>>)

\* lines 199-269: the issues of one transaction
TransactionIssues(d, tx, existing_ignored) ==
    (IF ZeroOrNegativeSum(tx)
        /\ <<"zero_or_negative_sum", tx.transaction_id>> \notin existing_ignored
     THEN <<NewIssue(d, "zero_or_negative_sum", 2, tx.transaction_id)>>
     ELSE <<>>)
    \o (IF PaymentMismatch(tx)
           /\ <<"payment_mismatch", tx.transaction_id>> \notin existing_ignored
        THEN <<NewIssue(d, "payment_mismatch", 2, tx.transaction_id)>>
        ELSE <<>>)
    \o (IF TableMoved(tx)
           /\ <<"table_move", tx.transaction_id>> \notin existing_ignored
        THEN <<NewIssue(d, "table_move", 1, tx.transaction_id)>>
        ELSE <<>>)

RECURSIVE AllTransactionIssues(_, _, _, _)
AllTransactionIssues(d, txs, existing_ignored, i) ==
    IF i > Len(txs) THEN <<>>
    ELSE TransactionIssues(d, txs[i], existing_ignored)
         \o AllTransactionIssues(d, txs, existing_ignored, i + 1)

\* a missing report taken for a day without transactions
NoTransactionsIssue_missingReport(d, reports, existing_ignored) ==
    IF /\ \A r \in reports : r.date = d => r.transactions_count = 0
       /\ <<"no_transactions", JNull>> \notin existing_ignored
    THEN <<NewIssue(d, "no_transactions", 1, JNull)>>
    ELSE <<>>

\* lines 271-282
NoTransactionsIssue(d, reports, existing_ignored) ==
    IF /\ \E r \in reports : r.date = d /\ r.transactions_count = 0
       /\ <<"no_transactions", JNull>> \notin existing_ignored
    THEN <<NewIssue(d, "no_transactions", 1, JNull)>>
    ELSE <<>>

\* lines 188-282: the list `issues`
ScanIssues(d, txTable, reports, existing_ignored) ==
    AllTransactionIssues(d,
        ByPk({tx \in txTable : OnDate(tx.date_start, d)}),
        existing_ignored, 1)
    \o NoTransactionsIssue(d, reports, existing_ignored)

\* the delete left out
DeleteNonIgnored_none(issues, d) == issues

\* the delete without ignored=False
DeleteNonIgnored_ignoredToo(issues, d) == {r \in issues : r.date # d}

\* line 284
DeleteNonIgnored(issues, d) ==
    {r \in issues : ~(r.date = d /\ ~r.ignored)}

\* line 285: bulk_create gives the rows consecutive primary keys
BulkCreate(issues, new, firstId) ==
    issues \cup {[new[i] EXCEPT !.id = firstId + i - 1] : i \in 1..Len(new)}

\* what tells the issues of one date apart
IssueKey(i) == <<i.issue_type, i.tx, i.severity>>

IssueKeys(issues) == {IssueKey(issues[i]) : i \in 1..Len(issues)}

ScanAnomalies(d) ==
    LET existing_ignored == ExistingIgnored(dataIssues, d)
        issues == ScanIssues(d, transactions, dailyReports, existing_ignored)
        after == BulkCreate(DeleteNonIgnored(dataIssues, d), issues, nextIssueId)
    IN  /\ dataIssues' = after
        /\ nextIssueId' = nextIssueId + Len(issues)
        /\ last' = [NoCall EXCEPT
                       !.op = "scan", !.date = d,
                       !.returned = Len(issues),
                       !.existing_ignored = existing_ignored,
                       !.issues = IssueKeys(issues)]
        /\ ops' = ops + 1
        /\ UNCHANGED <<transactions, spots, paymentsReports,
                       productsSalesReports, spotsSalesReports, dailyReports,
                       insights, nextInsightId, running, writer, scanning>>

----------------------------------------------------------------------------
(* scan_anomalies, one statement at a time *)

\* no scan in progress
NoScan == [st |-> "idle", date |-> 0, existing_ignored |-> {}, issues |-> <<>>]

\* lines 188-282: the reads.  The ignore set is loaded first and the list
\* `issues` is built from it and from the transactions and the DailyReport;
\* nothing is written.
StartScan(d) ==
    LET existing_ignored == ExistingIgnored(dataIssues, d)
    IN  /\ scanning.st \in {"idle", "done"}
        /\ scanning' = [st |-> "read", date |-> d,
                        existing_ignored |-> existing_ignored,
                        issues |-> ScanIssues(d, transactions, dailyReports,
                                              existing_ignored)]
        /\ UNCHANGED <<transactions, spots, paymentsReports, productsSalesReports,
                       spotsSalesReports, dailyReports, dataIssues, insights,
                       nextIssueId, nextInsightId, running, writer, last, ops>>

\* line 284: DataIssue.objects.filter(date=..., ignored=False).delete()
ScanDelete ==
    /\ scanning.st = "read"
    /\ dataIssues' = DeleteNonIgnored(dataIssues, scanning.date)
    /\ scanning' = [scanning EXCEPT !.st = "deleted"]
    /\ UNCHANGED <<transactions, spots, paymentsReports, productsSalesReports,
                   spotsSalesReports, dailyReports, insights, nextIssueId,
                   nextInsightId, running, writer, last, ops>>

\* lines 285-286: DataIssue.objects.bulk_create(issues); return issues
ScanInsert ==
    /\ scanning.st = "deleted"
    /\ dataIssues' = BulkCreate(dataIssues, scanning.issues, nextIssueId)
    /\ nextIssueId' = nextIssueId + Len(scanning.issues)
    /\ scanning' = [scanning EXCEPT !.st = "done"]
    /\ last' = [NoCall EXCEPT
                   !.op = "scan", !.date = scanning.date,
                   !.returned = Len(scanning.issues),
                   !.existing_ignored = scanning.existing_ignored,
                   !.issues = IssueKeys(scanning.issues)]
    /\ ops' = ops + 1
    /\ UNCHANGED <<transactions, spots, paymentsReports, productsSalesReports,
                   spotsSalesReports, dailyReports, insights, nextInsightId,
                   running, writer>>

----------------------------------------------------------------------------
(* issue_detail: the ignore and restore buttons *)

IgnoreIssue(id) ==
    /\ \E r \in dataIssues : r.id = id
    /\ dataIssues' = {IF r.id = id THEN [r EXCEPT !.ignored = TRUE] ELSE r
                        : r \in dataIssues}
    /\ last' = [NoCall EXCEPT !.op = "ignore", !.issue = id]
    /\ ops' = ops + 1
    /\ UNCHANGED <<transactions, spots, paymentsReports, productsSalesReports,
                   spotsSalesReports, dailyReports, insights, nextIssueId,
                   nextInsightId, running, writer, scanning>>

RestoreIssue(id) ==
    /\ \E r \in dataIssues : r.id = id
    /\ dataIssues' = {IF r.id = id THEN [r EXCEPT !.ignored = FALSE] ELSE r
                        : r \in dataIssues}
    /\ last' = [NoCall EXCEPT !.op = "restore", !.issue = id]
    /\ ops' = ops + 1
    /\ UNCHANGED <<transactions, spots, paymentsReports, productsSalesReports,
                   spotsSalesReports, dailyReports, insights, nextIssueId,
                   nextInsightId, running, writer, scanning>>

----------------------------------------------------------------------------
(* generate_insights *)

\* the report of the day before, in place of the latest earlier report
PrevReport_dayBefore(reports, d) == {r \in reports : r.date = d - 1}

\* line 295: filter(date__lt=report_date).order_by("-date").first()
PrevReport(reports, d) ==
    {r \in reports : r.date < d /\ \A q \in reports : q.date < d => q.date <= r.date}

\* drop >= 0.3 with drop = (prev - current) / prev, prev > 0
DropAtLeast30(prev, current) == 10 * (prev - current) >= 3 * prev

\* the avg-check notice under the precondition of the revenue notice
InsightsFor_revenuePrecondition(d, current, prevs) ==
    (IF current.transactions_count = 0
     THEN <<[id |-> 0, date |-> d, title |-> "no_sales", severity |-> 2]>>
     ELSE <<>>)
    \o (IF \E p \in prevs : p.revenue > 0 /\ DropAtLeast30(p.revenue, current.revenue)
        THEN <<[id |-> 0, date |-> d, title |-> "revenue_drop", severity |-> 2]>>
        ELSE <<>>)
    \o (IF \E p \in prevs : p.revenue > 0 /\ DropAtLeast30(p.avg_check, current.avg_check)
        THEN <<[id |-> 0, date |-> d, title |-> "avg_check_drop", severity |-> 1]>>
        ELSE <<>>)

\* an Insight not yet saved (id 0)
NewInsight(d, title, severity) ==
    [id |-> 0, date |-> d, title |-> title, severity |-> severity]

\* lines 296-330: the list `insights`
InsightsFor(d, current, prevs) ==
    (IF current.transactions_count = 0
     THEN <<NewInsight(d, "no_sales", 2)>> ELSE <<>>)
    \o (IF \E p \in prevs : p.revenue > 0 /\ DropAtLeast30(p.revenue, current.revenue)
        THEN <<NewInsight(d, "revenue_drop", 2)>> ELSE <<>>)
    \o (IF \E p \in prevs : p.avg_check > 0 /\ DropAtLeast30(p.avg_check, current.avg_check)
        THEN <<NewInsight(d, "avg_check_drop", 1)>> ELSE <<>>)

\* a missing report taken for a day without transactions
InsightRun_missingAsEmpty(reports, d) ==
    IF \E r \in reports : r.date = d
    THEN [found |-> TRUE,
          new |-> InsightsFor(d, CHOOSE r \in reports : r.date = d,
                              PrevReport(reports, d))]
    ELSE [found |-> TRUE,
          new |-> <<[id |-> 0, date |-> d, title |-> "no_sales", severity |-> 2]>>]

\* lines 291-330: whether the date has a report, and the list `insights`
InsightRun(reports, d) ==
    IF \E r \in reports : r.date = d
    THEN [found |-> TRUE,
          new |-> InsightsFor(d, CHOOSE r \in reports : r.date = d,
                              PrevReport(reports, d))]
    ELSE [found |-> FALSE, new |-> <<>>]

\* the delete left out
DeleteInsights_none(tbl, d) == tbl

\* line 332
DeleteInsights(tbl, d) == {r \in tbl : r.date # d}

\* line 333: bulk_create gives the rows consecutive primary keys
BulkCreateInsights(tbl, new, firstId) ==
    tbl \cup {[new[i] EXCEPT !.id = firstId + i - 1] : i \in 1..Len(new)}

GenerateInsights(d) ==
    LET run == InsightRun(dailyReports, d)
    IN  /\ insights' = IF run.found
                       THEN BulkCreateInsights(DeleteInsights(insights, d),
                                               run.new, nextInsightId)
                       ELSE insights
        /\ nextInsightId' = nextInsightId + Len(run.new)
        /\ last' = [NoCall EXCEPT !.op = "insights", !.date = d,
                                  !.returned = Len(run.new)]
        /\ ops' = ops + 1
        /\ UNCHANGED <<transactions, spots, paymentsReports, productsSalesReports,
                       spotsSalesReports, dailyReports, dataIssues, nextIssueId,
                       running, writer, scanning>>

----------------------------------------------------------------------------
(* daily_summary_by_spot *)

\* lines 340-344: the rows of the stored payload; iterating None or a number
\* raises TypeError, the characters of a string are no dicts
SummaryRows(raw) ==
    IF raw.top # "dict" THEN [error |-> "none", rows |-> <<>>]
    ELSE CASE raw.rkind = "list" -> [error |-> "none", rows |-> raw.rows]
           [] raw.rkind = "dict" ->
                IF raw.agg.spots.kind = "null"
                THEN [error |-> "TypeError", rows |-> <<>>]
                ELSE [error |-> "none", rows |-> raw.agg.spots.rows]
           [] raw.rkind \in {"null", "number"} ->
                [error |-> "TypeError", rows |-> <<>>]
           [] OTHER -> [error |-> "none", rows |-> <<>>]

\* line 349: str(row.get("spot_id") or row.get("id") or "")
SpotKey(row) == StrOrEmpty(Or2(row.spot_id, row.id))

\* lines 353-356: the four values int() is applied to
SummaryValues(row) ==
    [transactions |-> Or2(Or2(row.transactions_count, row.count), JInt(0)),
     revenue |-> Or2(Or2(row.revenue, row.sum), JInt(0)),
     returns |-> Or2(row.returns_count, JInt(0)),
     returns_sum |-> Or2(row.returns_sum, JInt(0))]

\* lines 346-351: the rows that get an entry
KeyedRows(rows) ==
    SelectSeq(rows, LAMBDA row : IsDictRow(row) /\ SpotKey(row) # JStr(0))

\* lines 352-357: summary[spot_id] = {...}, a later row replacing an earlier
\* one of the same location
ReportSummary(keyed) ==
    {[spot_id |-> SpotKey(keyed[i]),
      transactions |-> IntOf(SummaryValues(keyed[i]).transactions),
      revenue |-> IntOf(SummaryValues(keyed[i]).revenue),
      returns |-> IntOf(SummaryValues(keyed[i]).returns),
      returns_sum |-> IntOf(SummaryValues(keyed[i]).returns_sum)]
       : i \in {j \in 1..Len(keyed) :
                  \A k \in (j + 1)..Len(keyed) : SpotKey(keyed[k]) # SpotKey(keyed[j])}}

\* int() raises ValueError on one of the values of a row
BadValue(row) ==
    LET v == SummaryValues(row)
    IN  ~IntOk(v.transactions) \/ ~IntOk(v.revenue)
        \/ ~IntOk(v.returns) \/ ~IntOk(v.returns_sum)

\* the key "unknown"
UnknownSpot == JStr(-1)

\* line 365: tx.spot_id or "unknown"
FallbackKey(tx) == IF tx.spot_id = JStr(0) THEN UnknownSpot ELSE tx.spot_id

\* a return only by its status
IsReturn_statusOnly(tx) == tx.status = 3

\* line 370: tx.status == 3 or tx.sum < 0
IsReturn(tx) == tx.status = 3 \/ tx.sum < 0

\* lines 362-375: the summary computed from the transactions of the date
FallbackSummary(txs) ==
    {[spot_id |-> key,
      transactions |-> Cardinality({tx \in txs : FallbackKey(tx) = key}),
      revenue |->
          LET own == ByPk({tx \in txs : FallbackKey(tx) = key})
          IN  SumOf([i \in 1..Len(own) |-> own[i].sum], 1),
      returns |->
          Cardinality({tx \in txs : FallbackKey(tx) = key /\ IsReturn(tx)}),
      returns_sum |->
          LET own == ByPk({tx \in txs : FallbackKey(tx) = key /\ IsReturn(tx)})
          IN  SumOf([i \in 1..Len(own) |-> own[i].sum], 1)]
       : key \in {FallbackKey(tx) : tx \in txs}}

\* lines 337-375: what the call returns, or the exception it raises
SummaryOf(reports, txTable, d) ==
    LET fallback ==
            [error |-> "none",
             summary |-> FallbackSummary({tx \in txTable : OnDate(tx.date_start, d)})]
    IN  IF \E r \in reports : r.date = d
        THEN LET found == SummaryRows((CHOOSE r \in reports : r.date = d).raw)
                 keyed == KeyedRows(found.rows)
             IN  IF found.error # "none"
                 THEN [error |-> found.error, summary |-> {}]
                 ELSE IF \E i \in 1..Len(keyed) : BadValue(keyed[i])
                 THEN [error |-> "ValueError", summary |-> {}]
                 ELSE IF keyed # <<>>
                 THEN [error |-> "none", summary |-> ReportSummary(keyed)]
                 ELSE fallback
        ELSE fallback

DailySummaryBySpot(d) ==
    LET out == SummaryOf(spotsSalesReports, transactions, d)
    IN  /\ last' = [NoCall EXCEPT !.op = "summary", !.date = d,
                                  !.result = out.error, !.summary = out.summary]
        /\ ops' = ops + 1
        /\ UNCHANGED <<transactions, spots, paymentsReports, productsSalesReports,
                       spotsSalesReports, dailyReports, dataIssues, insights,
                       nextIssueId, nextInsightId, running, writer, scanning>>

----------------------------------------------------------------------------
(* build_report_text, build_custom_report_text *)

\* lines 426 and 478: the fixed message of a date without DailyReport
NoDataText(d) == [NoText EXCEPT !.kind = "no_data", !.date = d]

\* one line of a text: its label, the location or issue it is about, and
\* its numbers.  An amount is kept in minor units; the text prints it
\* divided by 100 with two decimals.
Line(label, key, a, b, c) == [label |-> label, key |-> key, a |-> a, b |-> b, c |-> c]

\* lines 377-381: the name of a location
get_spot_name(spot_id) ==
    IF spot_id = JStr(0) THEN [known |-> FALSE, name |-> JStr(0)]
    ELSE IF \E sp \in spots : sp.spot_id = spot_id
    THEN [known |-> TRUE, name |-> (CHOOSE sp \in spots : sp.spot_id = spot_id).name]
    ELSE [known |-> FALSE, name |-> spot_id]

\* line 434: metrics or the four default ones
ReportMetrics(metrics) ==
    IF metrics = <<>> THEN <<"revenue", "transactions", "avg_check", "issues">>
    ELSE metrics

\* the members of a sequence
Members(seq) == {seq[i] : i \in 1..Len(seq)}

\* lines 436-443: the metric lines, in the order of the code
MetricLines(report, metrics, issue_count) ==
    (IF "revenue" \in Members(metrics)
     THEN <<Line("revenue", JNull, report.revenue, 0, 0)>> ELSE <<>>)
    \o (IF "transactions" \in Members(metrics)
        THEN <<Line("transactions", JNull, report.transactions_count, 0, 0)>>
        ELSE <<>>)
    \o (IF "avg_check" \in Members(metrics)
        THEN <<Line("avg_check", JNull, report.avg_check, 0, 0)>> ELSE <<>>)
    \o (IF "issues" \in Members(metrics)
        THEN <<Line("issues", JNull, issue_count, 0, 0)>> ELSE <<>>)

\* lines 451-460: the line of one location, with or without its returns.
\* The lines follow the order of the summary mapping, which a set does not
\* keep.
SpotLines(summary, include_returns) ==
    {Line(IF get_spot_name(e.spot_id).known THEN "named" ELSE "unnamed",
          get_spot_name(e.spot_id).name, e.revenue, e.transactions,
          IF include_returns THEN e.returns ELSE 0) : e \in summary}

\* lines 465-468: the first five open issues and the number of the others
IssueLines(open) ==
    [i \in 1..(IF Len(open) > 5 THEN 5 ELSE Len(open)) |->
        Line(open[i].issue_type, open[i].tx, 0, 0, 0)]

\* lines 417-470: the text, or the exception of daily_summary_by_spot
ReportTextOf(d, cfg) ==
    IF ~\E r \in dailyReports : r.date = d
    THEN [error |-> "none", text |-> NoDataText(d)]
    ELSE
    LET report == CHOOSE r \in dailyReports : r.date = d
        found == SummaryOf(spotsSalesReports, transactions, d)
        summary == IF cfg.spot_ids = {} THEN found.summary
                   ELSE {e \in found.summary : e.spot_id \in cfg.spot_ids}
        open == ByPk({i \in dataIssues : i.date = d /\ ~i.ignored})
    IN  IF found.error # "none"
        THEN [error |-> found.error, text |-> NoText]
        ELSE [error |-> "none",
              text |->
                [kind |-> "report", date |-> d,
                 metrics |-> MetricLines(report, ReportMetrics(cfg.metrics), Len(open)),
                 spots_shown |-> cfg.include_spots,
                 spots |-> IF cfg.include_spots
                           THEN SpotLines(summary, cfg.include_returns) ELSE {},
                 issues |-> IF cfg.include_issues THEN IssueLines(open) ELSE <<>>,
                 more |-> IF cfg.include_issues /\ Len(open) > 5
                          THEN Len(open) - 5 ELSE 0]]

\* line 475: metrics of the template or the three default ones
CustomMetrics(config) ==
    IF config.kind = "dict" /\ config.metrics # <<>> THEN config.metrics
    ELSE <<"transactions_count", "revenue", "avg_check">>

\* lines 479-492: one line per metric; a name that is no metric is its own
\* label and has no value
CustomLines(report, metrics) ==
    [i \in 1..Len(metrics) |->
        CASE metrics[i] = "transactions_count" ->
                Line("transactions_count", JNull, report.transactions_count, 0, 0)
          [] metrics[i] = "revenue" -> Line("revenue", JNull, report.revenue, 0, 0)
          [] metrics[i] = "avg_check" -> Line("avg_check", JNull, report.avg_check, 0, 0)
          [] OTHER -> Line(metrics[i], JNull, 0, 0, 0)]

\* lines 473-493: `template.config or {}` keeps a config that is no dict
\* and not empty, and .get on it raises before the DailyReport is looked up
CustomTextOf(d, config) ==
    IF config.kind = "other"
    THEN [error |-> "AttributeError", text |-> NoText]
    ELSE IF ~\E r \in dailyReports : r.date = d
    THEN [error |-> "none", text |-> NoDataText(d)]
    ELSE [error |-> "none",
          text |-> [NoText EXCEPT
                      !.kind = "custom", !.date = d,
                      !.metrics = CustomLines(CHOOSE r \in dailyReports : r.date = d,
                                              CustomMetrics(config))]]

BuildReportText(d, cfg) ==
    LET out == ReportTextOf(d, cfg)
    IN  /\ last' = [NoCall EXCEPT !.op = "text", !.date = d,
                                  !.result = out.error, !.text = out.text,
                                  !.config = [kind |-> "arguments",
                                              metrics |-> cfg.metrics]]
        /\ ops' = ops + 1
        /\ UNCHANGED <<transactions, spots, paymentsReports, productsSalesReports,
                       spotsSalesReports, dailyReports, dataIssues, insights,
                       nextIssueId, nextInsightId, running, writer, scanning>>

BuildCustomReportText(d, config) ==
    LET out == CustomTextOf(d, config)
    IN  /\ last' = [NoCall EXCEPT !.op = "custom_text", !.date = d,
                                  !.result = out.error, !.text = out.text,
                                  !.config = config]
        /\ ops' = ops + 1
        /\ UNCHANGED <<transactions, spots, paymentsReports, productsSalesReports,
                       spotsSalesReports, dailyReports, dataIssues, insights,
                       nextIssueId, nextInsightId, running, writer, scanning>>

----------------------------------------------------------------------------
(* PosterClient *)

\* poster_client.py lines 25-45: the client of the settings, or ConfigError
\* when one of the three settings is empty
FromSettingsResult(settings) ==
    IF settings.base_url = "" \/ settings.token = "" \/ settings.auth_style = ""
    THEN [error |-> "ConfigError", client |-> NoClient]
    ELSE [error |-> "none", client |-> settings]

\* poster_client.py lines 47-66: where the credential goes, or ConfigError
_apply_auth(client) ==
    CASE client.auth_style = "query_token" ->
            [error |-> "none", auth |-> "query:token"]
      [] client.auth_style = "query_access_token" ->
            [error |-> "none", auth |-> "query:access_token"]
      [] client.auth_style = "bearer" ->
            [error |-> "none", auth |-> "header:Authorization"]
      [] OTHER -> [error |-> "ConfigError", auth |-> "none"]

\* what one call of requests.request and response.json() can do
HttpOutcomes == {"transport", "status", "not_json", "json"}

\* poster_client.py lines 71-101: one request.  A URL without a scheme makes
\* requests.request raise MissingSchema, a RequestException, whatever the
\* server would have answered.
RequestResult(client, outcome) ==
    LET applied == _apply_auth(client)
    IN  IF applied.error # "none"
        THEN [result |-> applied.error, http |-> NoHttp]
        ELSE IF client.base_url = ""
        THEN [result |-> "APIError",
              http |-> [calls |-> 1, auth |-> applied.auth, outcome |-> "transport"]]
        ELSE [result |-> IF outcome = "json" THEN "ok" ELSE "APIError",
              http |-> [calls |-> 1, auth |-> applied.auth, outcome |-> outcome]]

\* PosterClient.from_settings()
FromSettings(settings) ==
    LET made == FromSettingsResult(settings)
    IN  /\ last' = [NoCall EXCEPT !.op = "from_settings", !.result = made.error,
                                  !.client = made.client]
        /\ ops' = ops + 1
        /\ UNCHANGED <<transactions, spots, paymentsReports, productsSalesReports,
                       spotsSalesReports, dailyReports, dataIssues, insights,
                       nextIssueId, nextInsightId, running, writer, scanning>>

\* client.request(...) on a client built by the constructor
Request(client, outcome) ==
    LET done == RequestResult(client, outcome)
    IN  /\ last' = [NoCall EXCEPT !.op = "request", !.result = done.result,
                                  !.client = client, !.http = done.http]
        /\ ops' = ops + 1
        /\ UNCHANGED <<transactions, spots, paymentsReports, productsSalesReports,
                       spotsSalesReports, dailyReports, dataIssues, insights,
                       nextIssueId, nextInsightId, running, writer, scanning>>

----------------------------------------------------------------------------
(* reports_dashboard: the date-range import *)

\* the tables and the primary-key counters
Database ==
    [transactions |-> transactions, spots |-> spots,
     paymentsReports |-> paymentsReports,
     productsSalesReports |-> productsSalesReports,
     spotsSalesReports |-> spotsSalesReports,
     dailyReports |-> dailyReports, dataIssues |-> dataIssues,
     insights |-> insights, nextIssueId |-> nextIssueId,
     nextInsightId |-> nextInsightId]

\* scan_anomalies on a database value
ScanOn(db, d) ==
    LET existing_ignored == ExistingIgnored(db.dataIssues, d)
        issues == ScanIssues(d, db.transactions, db.dailyReports, existing_ignored)
    IN  [db |-> [db EXCEPT
                   !.dataIssues = BulkCreate(DeleteNonIgnored(@, d), issues,
                                             db.nextIssueId),
                   !.nextIssueId = @ + Len(issues)],
         issues |-> issues]

\* generate_insights on a database value
InsightsOn(db, d) ==
    LET run == InsightRun(db.dailyReports, d)
    IN  IF run.found
        THEN [db EXCEPT
                !.insights = BulkCreateInsights(DeleteInsights(@, d), run.new,
                                                db.nextInsightId),
                !.nextInsightId = @ + Len(run.new)]
        ELSE db

\* views.py lines 188-207: the exception of _notify_issue_alerts.  The alert
\* is built when the scan found an issue of a type the settings select, and
\* int() of line 201 raises on a chat id that is no number.
NotifyError(issues, telegram) ==
    IF /\ issues # <<>>
       /\ telegram.chat_ids # ""
       /\ \E i \in 1..Len(issues) : issues[i].issue_type \in telegram.notify_issue_types
       /\ telegram.chat_ids = "abc"
    THEN "ValueError" ELSE "none"

\* one entry of the trace of a dashboard import
Step(op, d) == [op |-> op, date |-> d]

RECURSIVE RangeRun(_, _, _, _, _, _)
\* views.py lines 325-336: the loop from `current` to date_to
RangeRun(db, current, date_to, resps, telegram, trace) ==
    IF current > date_to THEN [db |-> db, trace |-> trace, error |-> "none"]
    ELSE
    LET run == ImportRun(current, resps[current])
        imported == ApplyWrites(db, run.writes, 1)
        scanned == ScanOn(imported, current)
    IN  IF run.result # "ok"
        THEN [db |-> imported, trace |-> Append(trace, Step("import", current)),
              error |-> run.result]
        ELSE IF NotifyError(scanned.issues, telegram) # "none"
        THEN [db |-> scanned.db,
              trace |-> trace \o <<Step("import", current), Step("scan", current)>>,
              error |-> NotifyError(scanned.issues, telegram)]
        ELSE RangeRun(InsightsOn(scanned.db, current), current + 1, date_to,
                      resps, telegram,
                      trace \o <<Step("import", current), Step("scan", current),
                                 Step("insights", current)>>)

\* views.py line 325: current = date_from
RangeLoop(db, date_from, date_to, resps, telegram) ==
    RangeRun(db, date_from, date_to, resps, telegram, <<>>)

\* views.py lines 305-337: the "import" action of the dashboard.  Without an
\* active account nothing is imported; bounds in the wrong order are swapped.
DashboardImport(range) ==
    LET lo == IF range.date_from > range.date_to THEN range.date_to ELSE range.date_from
        hi == IF range.date_from > range.date_to THEN range.date_from ELSE range.date_to
        out == IF range.account
               THEN RangeLoop(Database, lo, hi, range.resps, range.telegram)
               ELSE [db |-> Database, trace |-> <<>>, error |-> "no_account"]
    IN  /\ transactions' = out.db.transactions
        /\ spots' = out.db.spots
        /\ paymentsReports' = out.db.paymentsReports
        /\ productsSalesReports' = out.db.productsSalesReports
        /\ spotsSalesReports' = out.db.spotsSalesReports
        /\ dailyReports' = out.db.dailyReports
        /\ dataIssues' = out.db.dataIssues
        /\ insights' = out.db.insights
        /\ nextIssueId' = out.db.nextIssueId
        /\ nextInsightId' = out.db.nextInsightId
        /\ last' = [NoCall EXCEPT !.op = "range", !.result = out.error,
                                  !.range = range, !.trace = out.trace]
        /\ ops' = ops + 1
        /\ UNCHANGED <<running, writer, scanning>>

----------------------------------------------------------------------------
(* Provider responses *)

\* one entry of the transactions response
Item(id, date_start, status, sum, payed_sum, payed_cash, spot_id, moved) ==
    [transaction_id |-> id, date_start |-> date_start, status |-> status,
     sum |-> sum, payed_sum |-> payed_sum, payed_cash |-> payed_cash,
     payed_card |-> JInt(0), payed_bonus |-> JInt(0),
     payed_third_party |-> JInt(0), payed_cert |-> JInt(0),
     spot_id |-> spot_id, history_move |-> moved]

\* {"response": [...]}
ListPayload(rows) ==
    [top |-> "dict", rkind |-> "list", agg |-> <<>>, rows |-> rows]
\* a dict without a usable "response", such as {"error": ...}
OtherDict(n) ==
    [top |-> "dict", rkind |-> "other", agg |-> <<n>>, rows |-> <<>>]
\* a payload that is no dict, such as a non-empty list
NonDict == [top |-> "other", rkind |-> "none", agg |-> <<>>, rows |-> <<>>]
\* the dict has no "spots" key
AbsentSpots == [kind |-> "absent", rows |-> <<>>]
\* {"response": {"revenue": ..., "clients": ..., ...}}
AggDict(revenue, clients, transactions_count, middle_invoice) ==
    [top |-> "dict", rkind |-> "dict",
     agg |-> [revenue |-> revenue, clients |-> clients,
              transactions_count |-> transactions_count,
              middle_invoice |-> middle_invoice,
              spots |-> AbsentSpots],
     rows |-> <<>>]
\* {"response": {"revenue": ..., "spots": ...}}: kind is "list" or "null"
AggDictSpots(revenue, kind, rows) ==
    [AggDict(revenue, JNull, JNull, JNull)
       EXCEPT !.agg.spots = [kind |-> kind, rows |-> rows]]
\* {"response": null}, {"response": 5}, {"response": "abc"}
ScalarResponse(rkind) ==
    [top |-> "dict", rkind |-> rkind, agg |-> <<>>, rows |-> <<>>]
\* one per-location row of the spots-sales list; a key that is absent reads
\* as None
SRow(revenue, sum, transactions_count, count, clients) ==
    [spot_id |-> JNull, id |-> JNull,
     revenue |-> revenue, sum |-> sum,
     transactions_count |-> transactions_count, count |-> count,
     clients |-> clients, returns_count |-> JNull, returns_sum |-> JNull]
\* a row with its location and its returns
SpotRow(spot_id, id, revenue, count, returns_count, returns_sum) ==
    [SRow(revenue, JNull, JNull, count, JNull)
       EXCEPT !.spot_id = spot_id, !.id = id,
              !.returns_count = returns_count, !.returns_sum = returns_sum]
\* an entry of the list that is no dict, such as a string
NonDictRow == [scalar |-> JStr(1)]

\* a timestamp that falls on day d
StartOn(d) == JInt(d * MsPerDay + 1)

\* a closed transaction "1" with a zero sum
ItemZero(d) ==
    Item(JNumStr(1), StartOn(d), JInt(2), JInt(0), JInt(0), JInt(0), JNumStr(1), FALSE)
\* transaction "2": 500 paid, 400 in components
ItemMismatch(d) ==
    Item(JNumStr(2), StartOn(d), JInt(2), JInt(500), JInt(500), JInt(400), JNumStr(1), FALSE)
\* transaction 2 again, the identifier given as a number, components complete
ItemFixed(d) ==
    Item(JInt(2), StartOn(d), JInt(2), JInt(500), JInt(500), JInt(500), JNull, TRUE)
\* transaction "3": 300 paid, nothing in components
ItemOther(d) ==
    Item(JNumStr(3), StartOn(d), JInt(1), JInt(300), JInt(300), JInt(0), JNull, FALSE)
\* a refund without an identifier
ItemNoId(d) ==
    Item(JNull, StartOn(d), JInt(3), JInt(-1), JInt(0), JInt(0), JNull, FALSE)

SpotsDirectory ==
    ListPayload(<<[spot_id |-> JInt(1), name |-> JStr(1)],
                  [spot_id |-> JInt(2), name |-> JNull]>>)

\* the responses of the pipeline specification
PipelineResponses(d) ==
    {[NoResp EXCEPT !.tx = Failed],
     [NoResp EXCEPT !.tx = Fetched(ListPayload(<<ItemZero(d)>>)), !.pay = Failed]}
    \cup
    {[tx |-> Fetched(ListPayload(rows)), pay |-> Fetched(OtherDict(1)),
      include_products_sales |-> FALSE, prod |-> NotFetched,
      spots_sales |-> ss, spots |-> Fetched(SpotsDirectory)]
       : rows \in {<<>>,
                   <<ItemZero(d), ItemMismatch(d), ItemOther(d)>>,
                   <<ItemMismatch(d), ItemFixed(d), ItemNoId(d)>>},
         ss \in {Failed,
                 Fetched(ListPayload(<<SRow(JInt(700), JNull, JInt(0), JInt(2), JNull)>>))}}

\* the responses of the fetch-failure specification: every outcome of the
\* five fetches, a later fetch being made only when the call gets that far
FetchResponses(d) ==
    {[NoResp EXCEPT !.tx = Failed, !.include_products_sales = inc]
       : inc \in BOOLEAN}
    \cup
    {[NoResp EXCEPT !.tx = Fetched(ListPayload(<<ItemZero(d), ItemMismatch(d)>>)),
                    !.pay = Failed, !.include_products_sales = inc]
       : inc \in BOOLEAN}
    \cup
    {[tx |-> Fetched(ListPayload(<<ItemZero(d), ItemMismatch(d)>>)),
      pay |-> Fetched(OtherDict(d)),
      include_products_sales |-> prod.st # "none", prod |-> prod,
      spots_sales |-> ss, spots |-> sp]
       : prod \in {NotFetched, Failed, Fetched(OtherDict(7))},
         ss \in {Failed,
                 Fetched(ListPayload(<<SRow(JInt(700), JNull, JInt(3), JNull, JNull)>>))},
         sp \in {Failed, Fetched(SpotsDirectory)}}

----------------------------------------------------------------------------
(* Specifications *)

Init ==
    /\ transactions = {}
    /\ spots = {}
    /\ paymentsReports = {}
    /\ productsSalesReports = {}
    /\ spotsSalesReports = {}
    /\ dailyReports = {}
    /\ dataIssues = {}
    /\ insights = {}
    /\ nextIssueId = 1
    /\ nextInsightId = 1
    /\ running = [p \in Importers |-> Idle]
    /\ writer = {}
    /\ scanning = NoScan
    /\ last = NoCall
    /\ ops = 0

Import ==
    /\ ops < MaxOps
    /\ \E d \in Dates : \E resp \in PipelineResponses(d) : ImportDaily(d, resp)

Scan == ops < MaxOps /\ \E d \in Dates : ScanAnomalies(d)

Insights == ops < MaxOps /\ \E d \in Dates : GenerateInsights(d)

Ignore == ops < MaxOps /\ \E r \in dataIssues : IgnoreIssue(r.id)

Restore == ops < MaxOps /\ \E r \in dataIssues : RestoreIssue(r.id)

Next == Import \/ Scan \/ Insights \/ Ignore \/ Restore

\* the pipeline: imports, scans, insight runs and the ignore/restore buttons
Spec == Init /\ [][Next]_vars

FetchImport ==
    /\ ops < MaxImports
    /\ \E d \in Dates : \E resp \in FetchResponses(d) : ImportDaily(d, resp)

\* imports under every outcome of the five fetches
SpecFetch == Init /\ [][FetchImport]_vars

----------------------------------------------------------------------------
(* Reconciliation inputs *)

Amounts == -MaxAmount..MaxAmount

\* a transaction of the reconciliation inputs: only its sum varies
ReconItem(d, n, sum) ==
    Item(JNumStr(n), StartOn(d), JInt(1), sum, JInt(0), JInt(0), JNull, FALSE)

ReconSums == {JInt(a) : a \in Amounts} \cup {JStr(1)}

\* transaction lists of up to two entries
ReconTxLists(d) ==
    {<<>>}
    \cup {<<ReconItem(d, 1, a)>> : a \in ReconSums}
    \cup {<<ReconItem(d, 1, a), ReconItem(d, 2, b)>> : a \in ReconSums, b \in ReconSums}

\* the lists used against an aggregate: none, a positive and a negative sum
ReconTxFew(d) ==
    {<<>>,
     <<ReconItem(d, 1, JInt(MaxAmount))>>,
     <<ReconItem(d, 1, JInt(-1)), ReconItem(d, 2, JInt(0))>>}

\* spots-sales payloads that match neither aggregate shape
ReconNoAggregate ==
    {Failed, Fetched(EmptyDict), Fetched(NonDict), Fetched(OtherDict(1)),
     Fetched(AggDict(JNull, JInt(2), JNull, JDec(1)))}

\* aggregate dicts: revenue and middle_invoice in major units
ReconAggDicts ==
    {Fetched(AggDict(revenue, clients, transactions_count, middle_invoice))
       : revenue \in {JDec(k) : k \in Amounts}
                     \cup {JInt(MaxAmount), JNumStr(1), JStr(0), JStr(1)},
         clients \in {JNull, JInt(0), JInt(-1), JInt(2), JStr(1)},
         transactions_count \in {JNull, JInt(3)},
         middle_invoice \in {JNull, JInt(0), JDec(MaxAmount), JStr(1)}}

\* per-location rows, amounts in minor units
ReconRows ==
    {SRow(revenue, sum, counts[1], counts[2], counts[3])
       : revenue \in {JInt(a) : a \in Amounts} \cup {JNull},
         sum \in {JNull, JInt(1)},
         counts \in {<<JNull, JNull, JNull>>, <<JInt(2), JNull, JInt(1)>>,
                     <<JInt(0), JInt(3), JNull>>, <<JNull, JNull, JNumStr(1)>>}}

\* lists of up to two rows
ReconAggLists ==
    {Fetched(ListPayload(<<>>))}
    \cup {Fetched(ListPayload(<<r>>)) : r \in ReconRows}
    \cup {Fetched(ListPayload(<<r, q>>)) : r \in ReconRows, q \in ReconRows}

ReconResponse(rows, ss) ==
    [tx |-> Fetched(ListPayload(rows)), pay |-> Fetched(OtherDict(1)),
     include_products_sales |-> FALSE, prod |-> NotFetched,
     spots_sales |-> ss, spots |-> Failed]

\* the responses of the reconciliation specification
ReconResponses(d) ==
    {ReconResponse(rows, ss) : rows \in ReconTxLists(d), ss \in ReconNoAggregate}
    \cup {ReconResponse(rows, ss)
            : rows \in ReconTxFew(d), ss \in ReconAggDicts \cup ReconAggLists}
    \cup {[ReconResponse(<<>>, Failed) EXCEPT !.tx = Fetched(OtherDict(1))]}

ReconImport ==
    /\ ops = 0
    /\ \E d \in Dates : \E resp \in ReconResponses(d) : ImportDaily(d, resp)

\* one import, over the shapes and amounts of the spots-sales aggregate
SpecRecon == Init /\ [][ReconImport]_vars

----------------------------------------------------------------------------
(* Crashes and concurrent importers *)

\* calls per behaviour of the crash specification
MaxRuns == 3

\* the responses of the crash specification: a day's first list, the list as
\* it is later (an entry gone, one corrected, new ones), a failed fetch
CrashResponses(d) ==
    {[tx |-> Fetched(ListPayload(<<ItemZero(d), ItemMismatch(d)>>)),
      pay |-> Fetched(OtherDict(1)),
      include_products_sales |-> FALSE, prod |-> NotFetched,
      spots_sales |-> Failed, spots |-> Failed],
     [tx |-> Fetched(ListPayload(<<ItemMismatch(d), ItemFixed(d), ItemNoId(d),
                                   ItemOther(d)>>)),
      pay |-> Fetched(OtherDict(2)),
      include_products_sales |-> FALSE, prod |-> NotFetched,
      spots_sales |->
          Fetched(ListPayload(<<SRow(JInt(700), JNull, JInt(0), JInt(2), JNull)>>)),
      spots |-> Fetched(SpotsDirectory)],
     [NoResp EXCEPT !.tx = Fetched(ListPayload(<<ItemZero(d)>>)), !.pay = Failed]}

CrashStart ==
    /\ ops < MaxRuns
    /\ \E d \in Dates : \E resp \in CrashResponses(d) : StartImport(1, d, resp)

CrashStep == StepImport(1)

CrashFinish == FinishImport(1)

Crash == CrashImport(1)

\* one importer whose calls may die after any upsert and are then repeated
SpecCrash == Init /\ [][CrashStart \/ CrashStep \/ CrashFinish \/ Crash]_vars

\* the responses of the race specification: the day as two importers may
\* see it, with different figures and one transaction in common
RaceResponses(d) ==
    {[tx |-> Fetched(ListPayload(<<ItemZero(d), ItemMismatch(d)>>)),
      pay |-> Fetched(OtherDict(1)),
      include_products_sales |-> FALSE, prod |-> NotFetched,
      spots_sales |-> Failed, spots |-> Failed],
     [tx |-> Fetched(ListPayload(<<ItemFixed(d), ItemOther(d)>>)),
      pay |-> Fetched(OtherDict(2)),
      include_products_sales |-> FALSE, prod |-> NotFetched,
      spots_sales |->
          Fetched(ListPayload(<<SRow(JInt(700), JNull, JInt(0), JInt(2), JNull)>>)),
      spots |-> Fetched(SpotsDirectory)]}

RaceStart ==
    \E p \in Importers :
        /\ running[p].st = "idle"
        /\ \E d \in Dates : \E resp \in RaceResponses(d) : StartImport(p, d, resp)

RaceStep == \E p \in Importers : StepImport(p)

RaceFinish == \E p \in Importers : FinishImport(p)

\* two importers, one call each, their upserts interleaved in any order
SpecRace == Init /\ [][RaceStart \/ RaceStep \/ RaceFinish]_vars

----------------------------------------------------------------------------
(* Insight inputs *)

\* one day more than the pipeline has, so that a report can lie two days back
InsightDates == 1..(MaxDate + 1)

\* spots-sales aggregates that set the figures of a day: revenue and count by
\* a list row, or a zero revenue with an average check by an aggregate dict
InsightAggregates ==
    {Fetched(ListPayload(<<SRow(JInt(f[1]), JNull, JInt(f[2]), JNull, JNull)>>))
       : f \in {<<1000, 1>>, <<700, 1>>, <<701, 1>>, <<1000, 2>>, <<0, 0>>}}
    \cup {Fetched(AggDict(JInt(0), JInt(1), JNull, JInt(10)))}

InsightResponses == {ReconResponse(<<>>, ss) : ss \in InsightAggregates}

InsightImport ==
    /\ ops < MaxOps
    /\ \E d \in InsightDates : \E resp \in InsightResponses : ImportDaily(d, resp)

InsightGenerate ==
    /\ ops < MaxOps
    /\ \E d \in InsightDates : GenerateInsights(d)

\* imports that set the figures of the days, and insight runs
SpecInsights == Init /\ [][InsightImport \/ InsightGenerate]_vars

----------------------------------------------------------------------------
(* Scan inputs *)

\* an entry with its five payment components
ItemParts(id, date_start, status, sum, payed_sum, parts) ==
    [Item(JNumStr(id), date_start, JInt(status), JInt(sum), JInt(payed_sum),
          JInt(parts[1]), JNull, FALSE)
       EXCEPT !.payed_card = JInt(parts[2]), !.payed_bonus = JInt(parts[3]),
              !.payed_third_party = JInt(parts[4]), !.payed_cert = JInt(parts[5])]

\* closed, 500 paid in five components of 100
ItemFiveParts(d) == ItemParts(3, StartOn(d), 2, 500, 500, <<100, 100, 100, 100, 100>>)
\* open, zero sum, nothing paid, a stray cash component
ItemOpen(d) == ItemParts(4, StartOn(d), 1, 0, 0, <<50, 0, 0, 0, 0>>)
\* closed, negative sum, 300 paid with 250 in components
ItemBoth(d) == ItemParts(5, StartOn(d), 2, -100, 300, <<100, 100, 0, 0, 50>>)
\* a return: status 3, negative amounts
ItemReturn(d) == ItemParts(6, StartOn(d), 3, -5, -5, <<0, 0, 0, 0, 0>>)
\* closed with a zero sum, started on the day after d (the first day after
\* the last)
ItemElsewhere(d) == ItemParts(7, StartOn((d % MaxDate) + 1), 2, 0, 0, <<0, 0, 0, 0, 0>>)

\* the responses of the scan specification
ScanResponses(d) ==
    {ReconResponse(rows, ss)
       : rows \in {<<ItemZero(d), ItemMismatch(d)>>,
                   <<ItemFiveParts(d), ItemOpen(d), ItemBoth(d), ItemReturn(d)>>,
                   <<>>,
                   <<ItemElsewhere(d)>>},
         ss \in {Failed}}
    \cup {ReconResponse(<<ItemZero(d)>>, Fetched(ListPayload(<<>>)))}

ScanImport ==
    /\ ops < MaxOps
    /\ \E d \in Dates : \E resp \in ScanResponses(d) : ImportDaily(d, resp)

\* imports of days with every kind of transaction, scans, and the ignore
\* button
SpecScan == Init /\ [][ScanImport \/ Scan \/ Ignore]_vars

----------------------------------------------------------------------------
(* Summary inputs *)

\* location 1: 700 in 2 transactions, 1 return of -5
RowOne == SpotRow(JInt(1), JNull, JInt(700), JInt(2), JInt(1), JInt(-5))
\* location "2" under the key "id", the revenue a numeric string
RowAlias == SpotRow(JNull, JNumStr(2), JNumStr(300), JNull, JNull, JNull)
\* location 1 again with other figures
RowAgain == SpotRow(JInt(1), JNull, JInt(50), JInt(1), JNull, JNull)
\* a row without a location
RowNoSpot == SRow(JInt(100), JNull, JNull, JInt(1), JNull)
\* location 1 with a revenue that is no number
RowBadRevenue == SpotRow(JInt(1), JNull, JStr(1), JInt(2), JNull, JNull)

\* the spots-sales fetches of the summary specification
SummaryPayloads ==
    {Failed}
    \cup {Fetched(ListPayload(rows))
            : rows \in {<<RowOne>>, <<RowAlias, RowNoSpot>>, <<RowNoSpot>>,
                        <<RowOne, RowAgain>>, <<NonDictRow, RowOne>>,
                        <<RowBadRevenue>>, <<>>}}
    \cup {Fetched(AggDictSpots(JInt(700), "list", <<RowOne>>)),
          Fetched(AggDictSpots(JInt(700), "null", <<>>)),
          Fetched(AggDict(JInt(700), JNull, JNull, JNull)),
          Fetched(ScalarResponse("null")), Fetched(ScalarResponse("number")),
          Fetched(ScalarResponse("string")),
          Fetched(OtherDict(1)), Fetched(NonDict)}

\* transaction "8" of location 1: status 3 with a positive sum
ItemStatusReturn(d) ==
    Item(JNumStr(8), StartOn(d), JInt(3), JInt(40), JInt(40), JInt(40), JNumStr(1), FALSE)

\* the responses of the summary specification: transactions of location 1
\* and of none, returns by status and by sign, with every spots-sales payload
SummaryResponses(d) ==
    {ReconResponse(<<ItemZero(d), ItemMismatch(d), ItemStatusReturn(d),
                     ItemReturn(d), ItemBoth(d)>>, ss)
       : ss \in SummaryPayloads}
    \cup {ReconResponse(<<>>, ss)
            : ss \in {Failed, Fetched(ListPayload(<<RowOne>>))}}

SummaryImport ==
    /\ ops < MaxImports
    /\ \E d \in Dates : \E resp \in SummaryResponses(d) : ImportDaily(d, resp)

Summary ==
    /\ ops < MaxImports
    /\ \E d \in Dates : DailySummaryBySpot(d)

\* imports of days with every shape of spots-sales payload, and summaries
SpecSummary == Init /\ [][SummaryImport \/ Summary]_vars

----------------------------------------------------------------------------
(* Start timestamps *)

\* closed with a zero sum, the start no number
ItemNoStart(d) == ItemParts(9, JStr(1), 2, 0, 0, <<0, 0, 0, 0, 0>>)
\* a return of -5, the start the epoch itself
ItemEpoch(d) == ItemParts(10, JInt(0), 3, -5, -5, <<0, 0, 0, 0, 0>>)
\* closed with a zero sum, the start a day before the epoch
ItemBefore(d) == ItemParts(11, JInt(0 - MsPerDay), 2, 0, 0, <<0, 0, 0, 0, 0>>)

\* the responses of the timestamp specification: the raw-sum path, with
\* transactions that start on the day, on another day, or have no usable start
StampResponses(d) ==
    {ReconResponse(rows, Failed)
       : rows \in {<<ItemBoth(d), ItemNoStart(d)>>,
                   <<ItemEpoch(d), ItemBefore(d), ItemElsewhere(d)>>,
                   <<ItemNoStart(d), ItemElsewhere(d)>>}}

StampImport ==
    /\ ops < MaxImports
    /\ \E d \in Dates : \E resp \in StampResponses(d) : ImportDaily(d, resp)

\* imports of days whose transactions start anywhere, scans and summaries
SpecStamp == Init /\ [][StampImport \/ Scan \/ Summary]_vars

----------------------------------------------------------------------------
(* Malformed payloads *)

\* the transactions payloads: a list, a list with an entry that is no dict,
\* a payload that is no dict, a dict without response, a null response
MalformedTransactions(d) ==
    {ListPayload(<<ItemZero(d), ItemMismatch(d)>>),
     ListPayload(<<ItemZero(d), NonDictRow>>),
     NonDict, OtherDict(1), ScalarResponse("null")}

\* the spots-sales payloads: no dict, a null or scalar response, entries
\* that are no dicts, a revenue or a middle_invoice that is no number
MalformedSpotsSales ==
    {NonDict, OtherDict(1),
     ScalarResponse("null"), ScalarResponse("number"), ScalarResponse("string"),
     ListPayload(<<NonDictRow>>), ListPayload(<<RowOne, NonDictRow>>),
     ListPayload(<<RowBadRevenue>>),
     AggDict(JStr(1), JInt(2), JNull, JNull),
     AggDict(JInt(MaxAmount), JInt(2), JNull, JStr(1)),
     AggDictSpots(JInt(MaxAmount), "null", <<>>)}

\* the location directories: a list with an entry that is no dict between
\* two locations, a payload that is no dict, a null response
MalformedSpots ==
    {ListPayload(<<[spot_id |-> JInt(1), name |-> JStr(1)], NonDictRow,
                   [spot_id |-> JInt(2), name |-> JStr(1)]>>),
     NonDict, ScalarResponse("null")}

\* every fetch succeeds; one of the payloads has an unexpected shape
MalformedResponses(d) ==
    {[ReconResponse(<<>>, Failed) EXCEPT !.tx = Fetched(tx)]
       : tx \in MalformedTransactions(d)}
    \cup {[ReconResponse(<<>>, Failed) EXCEPT !.pay = Fetched(pay)]
            : pay \in {NonDict, ScalarResponse("null")}}
    \cup {ReconResponse(<<ItemZero(d)>>, Fetched(ss)) : ss \in MalformedSpotsSales}
    \cup {[ReconResponse(<<ItemZero(d)>>, Failed) EXCEPT !.spots = Fetched(sp)]
            : sp \in MalformedSpots}
    \cup {[ReconResponse(<<ItemZero(d)>>, Failed)
             EXCEPT !.include_products_sales = TRUE, !.prod = Fetched(prod)]
            : prod \in {NonDict, ScalarResponse("null")}}

MalformedImport ==
    /\ ops < MaxImports
    /\ \E d \in Dates : \E resp \in MalformedResponses(d) : ImportDaily(d, resp)

\* imports of payloads of unexpected shape, and summaries
SpecMalformed == Init /\ [][MalformedImport \/ Summary]_vars

----------------------------------------------------------------------------
(* Client inputs *)

\* base URL, credential and auth style, each present or absent, the style
\* one of the three known ones or another
Clients ==
    [base_url : {"", "https://demo.joinposter.com/api"},
     token : {"", "secret"},
     auth_style : {"", "query_token", "query_access_token", "bearer", "basic"}]

ClientFromSettings ==
    /\ ops < MaxOps
    /\ \E settings \in Clients : FromSettings(settings)

ClientRequest ==
    /\ ops < MaxOps
    /\ \E client \in Clients : \E outcome \in HttpOutcomes : Request(client, outcome)

\* clients made from settings, and requests of clients of every make
SpecClient == Init /\ [][ClientFromSettings \/ ClientRequest]_vars

----------------------------------------------------------------------------
(* Report text inputs *)

\* the arguments of build_report_text: the defaults, one metric without the
\* location and issue sections, and an allow-list of locations
TextConfigs ==
    {[metrics |-> <<>>, include_spots |-> TRUE, include_issues |-> TRUE,
      include_returns |-> TRUE, spot_ids |-> {}],
     [metrics |-> <<"revenue">>, include_spots |-> FALSE, include_issues |-> FALSE,
      include_returns |-> TRUE, spot_ids |-> {}],
     [metrics |-> <<"issues", "transactions">>, include_spots |-> TRUE,
      include_issues |-> TRUE, include_returns |-> FALSE,
      spot_ids |-> {JNumStr(1)}]}

\* the config of a template: null or {}, the dict the dashboard saves
\* ({"builder": ...}), a dict with metrics, and a JSON list
TemplateConfigs ==
    {[kind |-> "empty", metrics |-> <<>>],
     [kind |-> "dict", metrics |-> <<>>],
     [kind |-> "dict", metrics |-> <<"revenue", "margin">>],
     [kind |-> "other", metrics |-> <<>>]}

\* a day with its own transactions, a day whose only transaction started on
\* the next day, and an import that stops before the DailyReport
TextResponses(d) ==
    {ReconResponse(<<ItemZero(d), ItemMismatch(d)>>, Failed),
     ReconResponse(<<ItemElsewhere(d)>>, Failed),
     ReconResponse(<<ItemZero(d)>>, Fetched(ListPayload(<<NonDictRow>>))),
     ReconResponse(<<ItemZero(d)>>, Fetched(ScalarResponse("null")))}

TextImport ==
    /\ ops < MaxOps
    /\ \E d \in Dates : \E resp \in TextResponses(d) : ImportDaily(d, resp)

BuildText ==
    /\ ops < MaxOps
    /\ \E d \in Dates : \E cfg \in TextConfigs : BuildReportText(d, cfg)

BuildCustomText ==
    /\ ops < MaxOps
    /\ \E d \in Dates : \E config \in TemplateConfigs : BuildCustomReportText(d, config)

\* imports, scans and the two report texts
SpecText == Init /\ [][TextImport \/ Scan \/ BuildText \/ BuildCustomText]_vars

----------------------------------------------------------------------------
(* Optional payloads *)

\* the products-sales fetch: not requested, failed, empty, and two payloads
OptionalProducts ==
    {NotFetched, Failed, Fetched(EmptyDict), Fetched(OtherDict(7)),
     Fetched(OtherDict(8))}

\* the spots-sales fetch: failed, empty, a list of rows and an aggregate
OptionalSpotsSales ==
    {Failed, Fetched(EmptyDict),
     Fetched(ListPayload(<<SRow(JInt(700), JNull, JInt(3), JNull, JNull)>>)),
     Fetched(AggDict(JInt(MaxAmount), JInt(2), JNull, JNull))}

\* a failed transactions fetch, after which no other fetch is made, and
\* every pair of optional fetches after the two required ones
OptionalResponses(d) ==
    {[NoResp EXCEPT !.tx = Failed]}
    \cup
    {[tx |-> Fetched(ListPayload(<<ItemZero(d), ItemMismatch(d)>>)),
      pay |-> Fetched(OtherDict(1)),
      include_products_sales |-> prod.st # "none", prod |-> prod,
      spots_sales |-> ss, spots |-> Failed]
       : prod \in OptionalProducts, ss \in OptionalSpotsSales}

OptionalImport ==
    /\ ops < MaxImports
    /\ \E d \in Dates : \E resp \in OptionalResponses(d) : ImportDaily(d, resp)

\* imports with every outcome of the two optional report fetches
SpecOptional == Init /\ [][OptionalImport]_vars

----------------------------------------------------------------------------
(* Dashboard inputs *)

\* the responses of one date: two transactions with anomalies, none, and a
\* transactions fetch that fails
RangeResponses(d) ==
    {ReconResponse(<<ItemZero(d), ItemMismatch(d)>>, Failed),
     ReconResponse(<<>>, Failed),
     [NoResp EXCEPT !.tx = Failed]}

\* no chats, chats that are numbers, and a chat that is no number, alerted
\* on payment mismatches
TelegramRows ==
    {NoTelegram,
     [chat_ids |-> "100,200", notify_issue_types |-> {"payment_mismatch"}],
     [chat_ids |-> "abc", notify_issue_types |-> {"payment_mismatch"}]}

\* the responses of the dates, one choice per date
RangeResponseMaps ==
    {resps \in [Dates -> UNION {RangeResponses(d) : d \in Dates}]
       : \A d \in Dates : resps[d] \in RangeResponses(d)}

RangeImport ==
    /\ ops < MaxImports
    /\ \E date_from \in Dates : \E date_to \in Dates :
       \E account \in BOOLEAN : \E resps \in RangeResponseMaps :
       \E telegram \in TelegramRows :
          DashboardImport([date_from |-> date_from, date_to |-> date_to,
                           account |-> account, resps |-> resps,
                           telegram |-> telegram])

\* date-range imports from the dashboard
SpecRange == Init /\ [][RangeImport]_vars

----------------------------------------------------------------------------
(* Scans interleaved with the ignore and restore buttons *)

ScanRaceImport ==
    /\ ops < MaxOps
    /\ scanning.st \in {"idle", "done"}
    /\ \E d \in Dates :
          ImportDaily(d, ReconResponse(<<ItemZero(d), ItemMismatch(d)>>, Failed))

ScanRaceStart == ops < MaxOps /\ \E d \in Dates : StartScan(d)

\* a scan in its three steps, imports between scans, and the buttons at
\* any moment
SpecScanRace ==
    Init /\ [][ScanRaceImport \/ ScanRaceStart \/ ScanDelete \/ ScanInsert
               \/ Ignore \/ Restore]_vars

----------------------------------------------------------------------------
(* Properties *)

\* the DailyReport rows of a date
ReportsOf(d) == {r \in dailyReports : r.date = d}

\* no two rows share a transaction identifier
OneRowPerIdentifier(tbl) ==
    \A r \in tbl : \A q \in tbl : r.transaction_id = q.transaction_id => r = q

\* the identifiers of the entries of the transactions response
UpstreamIdentifiers(resp) ==
    LET items == _extract_transactions(resp.tx.data)
    IN  {StrOrEmpty(items[i].transaction_id) : i \in 1..Len(items)}

\* C1: an import_daily call that repeats the previous call (same date, same
\* outcome of each fetch) leaves every table it writes as the previous call
\* left it, and the Transaction table has one row per identifier.
C1_ReimportIsIdempotent ==
    [][(last'.op = "import" /\ last'.repeat)
         => /\ Store' = Store
            /\ OneRowPerIdentifier(transactions')
            /\ Cardinality({r \in dailyReports' : r.date = last'.date}) <= 1]_vars

C1_Witness ==
    /\ last.op = "import" /\ last.repeat /\ last.result = "ok"
    /\ Cardinality(transactions) >= 2
    /\ ReportsOf(last.date) # {}

\* the ignored issues of the date the last call was for
IgnoredPairs ==
    {<<r.issue_type, r.tx>> : r \in {q \in dataIssues : q.date = last.date /\ q.ignored}}

\* the stored transactions of the date that show an anomaly of the type
Anomalous(type, d) ==
    {tx \in transactions :
       /\ OnDate(tx.date_start, d)
       /\ \/ type = "zero_or_negative_sum" /\ tx.status = 2 /\ tx.sum <= 0
          \/ /\ type = "payment_mismatch" /\ tx.payed_sum > 0
             /\ tx.payed_cash + tx.payed_card + tx.payed_bonus
                  + tx.payed_third_party + tx.payed_cert # tx.payed_sum
          \/ type = "table_move" /\ tx.raw.history_move}

TransactionIssueTypes == {"zero_or_negative_sum", "payment_mismatch", "table_move"}

\* C2: a scan creates no issue for a (type, transaction identifier) pair that
\* an ignored issue of the date carries, and does create one for every other
\* transaction of the date that shows an anomaly of a type.
C2_IgnoredNotRecreated ==
    last.op = "scan" =>
        /\ \A key \in last.issues : <<key[1], key[2]>> \notin IgnoredPairs
        /\ \A type \in TransactionIssueTypes :
             \A tx \in Anomalous(type, last.date) :
               <<type, tx.transaction_id>> \notin IgnoredPairs
                 => \E key \in last.issues : key[1] = type /\ key[2] = tx.transaction_id

C2_Witness ==
    /\ last.op = "scan"
    /\ \E t1 \in Anomalous("payment_mismatch", last.date) :
         \E t2 \in Anomalous("payment_mismatch", last.date) :
           /\ <<"payment_mismatch", t1.transaction_id>> \in IgnoredPairs
           /\ t2.transaction_id # t1.transaction_id
           /\ \E key \in last.issues :
                key[1] = "payment_mismatch" /\ key[2] = t2.transaction_id

\* the issues of a date that are not ignored
OpenIssues(issues, d) == {r \in issues : r.date = d /\ ~r.ignored}

\* C3: after a scan the non-ignored issues of the date are exactly the
\* issues the call returned, none of the non-ignored issues that existed
\* before is left, and a scan that follows directly returns the same issues.
C3_ScanReplacesOpenIssues ==
    [][last'.op = "scan"
         => /\ {IssueKey(r) : r \in OpenIssues(dataIssues', last'.date)} = last'.issues
            /\ Cardinality(OpenIssues(dataIssues', last'.date)) = last'.returned
            /\ \A r \in OpenIssues(dataIssues, last'.date) :
                 \A q \in dataIssues' : q.id # r.id
            /\ (last.op = "scan" /\ last.date = last'.date)
                 => last'.issues = last.issues]_vars

C3_Witness ==
    /\ last.op = "scan" /\ last.returned >= 2
    /\ nextIssueId - 1 > Cardinality(dataIssues)
    /\ OpenIssues(dataIssues, last.date) # {}

\* C4: a scan leaves every ignored issue and every issue of another date as
\* it was, creates and deletes only non-ignored issues of its date, and
\* writes no other table.
C4_ScanFrame ==
    [][last'.op = "scan"
         => /\ \A r \in dataIssues :
                 (r.ignored \/ r.date # last'.date) => r \in dataIssues'
            /\ \A r \in dataIssues' \ dataIssues : r.date = last'.date /\ ~r.ignored
            /\ \A r \in dataIssues \ dataIssues' : r.date = last'.date /\ ~r.ignored
            /\ Store' = Store
            /\ insights' = insights]_vars

C4_Witness ==
    /\ last.op = "scan" /\ last.returned > 0
    /\ \E r \in dataIssues : r.ignored /\ r.date = last.date
    /\ transactions # {} /\ dailyReports # {}

\* C5: no call deletes a Transaction row: a row keeps its primary key and
\* identifier, it is rewritten only by an import whose response carries its
\* identifier, and no two rows ever share an identifier.
C5_TransactionsOnlyUpserted ==
    [][/\ \A r \in transactions :
            \E q \in transactions' :
              /\ q.id = r.id /\ q.transaction_id = r.transaction_id
              /\ (q # r => /\ last'.op = "import"
                           /\ r.transaction_id \in UpstreamIdentifiers(last'.resp))
       /\ OneRowPerIdentifier(transactions')]_vars

C5_Witness ==
    /\ last.op = "import" /\ last.result = "ok"
    /\ \E r \in transactions :
         /\ r.transaction_id \notin UpstreamIdentifiers(last.resp)
         /\ OnDate(r.date_start, last.date)
    /\ \E r \in transactions : r.transaction_id \in UpstreamIdentifiers(last.resp)

\* C6: an import whose transactions fetch or payments fetch fails raises the
\* API error and leaves every table as it was.
C6_RequiredFetchFailureWritesNothing ==
    [][(/\ last'.op = "import"
        /\ (last'.resp.tx.st = "APIError" \/ last'.resp.pay.st = "APIError"))
         => /\ last'.result = "APIError"
            /\ Store' = Store
            /\ dataIssues' = dataIssues
            /\ insights' = insights]_vars

C6_Witness ==
    /\ last.op = "import" /\ last.resp.tx.st = "ok" /\ last.resp.pay.st = "APIError"
    /\ last.result = "APIError"
    /\ ReportsOf(last.date) # {}
    /\ transactions # {}

\* the payload an optional fetch counts as
CountsAs(fetch) == IF fetch.st = "ok" THEN fetch.data ELSE EmptyDict

\* C7: with both required fetches made, an import does not raise whichever
\* optional fetches fail: a failed optional fetch counts as an empty payload,
\* every entry with an identifier has its Transaction row, the PaymentsReport
\* and the DailyReport of the date hold the fetched payloads, and the call
\* returns the DailyReport's transactions_count.
C7_OptionalFetchFailuresSwallowed ==
    (last.op = "import" /\ last.resp.tx.st = "ok" /\ last.resp.pay.st = "ok") =>
        /\ last.result = "ok"
        /\ \A id \in UpstreamIdentifiers(last.resp) \ {JStr(0)} :
             \E r \in transactions : r.transaction_id = id
        /\ \E r \in paymentsReports :
             r.date = last.date /\ r.raw = last.resp.pay.data
        /\ \E r \in dailyReports :
             /\ r.date = last.date
             /\ r.raw_transactions = last.resp.tx.data
             /\ r.raw_payments = last.resp.pay.data
             /\ r.raw_products_sales = CountsAs(last.resp.prod)
             /\ r.transactions_count = last.returned
             /\ last.resp.spots_sales.st = "APIError"
                  => r.transactions_count
                       = Len(_extract_transactions(last.resp.tx.data))

C7_Witness ==
    /\ last.op = "import" /\ last.result = "ok"
    /\ last.resp.prod.st = "APIError"
    /\ last.resp.spots_sales.st = "APIError"
    /\ last.resp.spots.st = "APIError"
    /\ ReportsOf(last.date) # {}

\* the spots-sales payload the last import worked with
SpotsSalesOfLast == CountsAs(last.resp.spots_sales)

\* it is {"response": {...}} with a revenue that is not null
IsAggDict ==
    /\ SpotsSalesOfLast.top = "dict" /\ SpotsSalesOfLast.rkind = "dict"
    /\ SpotsSalesOfLast.agg.revenue # JNull

\* it is {"response": [...]}
IsAggList == SpotsSalesOfLast.top = "dict" /\ SpotsSalesOfLast.rkind = "list"

ImportedOk == last.op = "import" /\ last.result = "ok"

\* q is a / b rounded toward zero
IsTruncatedQuotient(q, a, b) ==
    LET r == a - q * b
    IN  Abs(r) < Abs(b) /\ (r = 0 \/ (r > 0) = (a > 0))

\* m is f8 / 8 * 100 rounded to the nearest integer, a half to the even one
IsMinorOf(m, f8) ==
    LET diff == Abs(25 * f8 - 2 * m)
    IN  diff <= 1 /\ (diff = 1 => m % 2 = 0)

RECURSIVE Total(_, _)
\* f[1] + ... + f[n]
Total(f, n) == IF n = 0 THEN 0 ELSE Total(f, n - 1) + f[n]

\* the figures of the transactions list of the last import
RawCount == Len(_extract_transactions(last.resp.tx.data))
RawRevenue ==
    LET items == _extract_transactions(last.resp.tx.data)
    IN  Total([i \in 1..Len(items) |->
                  IF IntOk(items[i].sum) THEN IntOf(items[i].sum) ELSE 0],
              Len(items))

\* the paths of C8: every import but the one that takes a middle_invoice
NoMiddleInvoice ==
    ~IsAggDict \/ SpotsSalesOfLast.agg.middle_invoice = JNull

\* C8 as stated: avg_check is the floor of revenue / transactions_count when
\* transactions_count > 0, and 0 otherwise.
C8_Original ==
    (ImportedOk /\ NoMiddleInvoice) =>
        \A r \in ReportsOf(last.date) :
            r.avg_check = IF r.transactions_count > 0
                          THEN r.revenue \div r.transactions_count ELSE 0

\* C8, amended: on the raw-sum path, the list path and the dict path without
\* middle_invoice, avg_check is revenue / transactions_count rounded toward
\* zero when transactions_count is not 0, and 0 when it is 0.
C8_AvgCheckTruncated ==
    (ImportedOk /\ NoMiddleInvoice) =>
        /\ ReportsOf(last.date) # {}
        /\ \A r \in ReportsOf(last.date) :
             IF r.transactions_count = 0 THEN r.avg_check = 0
             ELSE IsTruncatedQuotient(r.avg_check, r.revenue, r.transactions_count)

C8_Witness ==
    /\ ImportedOk /\ ~IsAggDict /\ ~IsAggList
    /\ \E r \in ReportsOf(last.date) :
         /\ r.revenue < 0 /\ r.transactions_count = 2
         /\ r.revenue = RawRevenue
         /\ 2 * r.avg_check # r.revenue

\* the aggregate dict of the last import
AggOfLast == SpotsSalesOfLast.agg

\* float(revenue or 0), in eighths
AggRevenue8 == IF Truthy(AggOfLast.revenue) THEN Float8(AggOfLast.revenue) ELSE 0

\* "clients, or else transactions_count", as an integer
AggCount ==
    LET field == IF Truthy(AggOfLast.clients) THEN AggOfLast.clients
                 ELSE AggOfLast.transactions_count
    IN  IF IntOk(field) THEN IntOf(field) ELSE 0

\* the figures of a report come from the aggregate dict
FromAggDict(r) ==
    /\ IsMinorOf(r.revenue, AggRevenue8)
    /\ r.transactions_count = AggCount
    /\ IF AggOfLast.middle_invoice # JNull /\ FloatOk(AggOfLast.middle_invoice)
       THEN IsMinorOf(r.avg_check, Float8(AggOfLast.middle_invoice))
       ELSE IF r.transactions_count = 0 THEN r.avg_check = 0
       ELSE IsTruncatedQuotient(r.avg_check, r.revenue, r.transactions_count)

\* the figures of a report are those of the transactions list
FromTransactions(r) ==
    /\ r.transactions_count = RawCount
    /\ r.revenue = RawRevenue
    /\ IF RawCount = 0 THEN r.avg_check = 0
       ELSE IsTruncatedQuotient(r.avg_check, RawRevenue, RawCount)

\* C9 as stated: whenever the response is a dict with a revenue, the figures
\* of the DailyReport come from the aggregate.
C9_Original ==
    (ImportedOk /\ IsAggDict) => \A r \in ReportsOf(last.date) : FromAggDict(r)

\* C9, amended: when the response is a dict with a numeric revenue that is
\* not negative, the figures of the DailyReport come from the aggregate; a
\* negative revenue leaves the figures of the transactions list.
C9_AggregateDictPreferred ==
    (/\ last.op = "import" /\ last.resp.tx.st = "ok" /\ last.resp.pay.st = "ok"
     /\ IsAggDict
     /\ ~Truthy(AggOfLast.revenue) \/ FloatOk(AggOfLast.revenue)) =>
        /\ last.result = "ok"
        /\ ReportsOf(last.date) # {}
        /\ \A r \in ReportsOf(last.date) :
             IF AggRevenue8 >= 0 THEN FromAggDict(r) ELSE FromTransactions(r)

C9_Witness ==
    /\ ImportedOk /\ IsAggDict /\ AggRevenue8 > 0
    /\ AggOfLast.middle_invoice = JDec(MaxAmount)
    /\ AggOfLast.clients = JInt(0) /\ AggOfLast.transactions_count = JInt(3)
    /\ \E r \in ReportsOf(last.date) :
         r.revenue # RawRevenue /\ r.transactions_count = 3 /\ r.avg_check > 0

\* the totals of the per-location rows of the last import
RowsOfLast == SpotsSalesOfLast.rows
RowRevenue(row) ==
    LET field == IF Truthy(row.revenue) THEN row.revenue ELSE row.sum
    IN  IF IntOk(field) THEN IntOf(field) ELSE 0
RowCount(row) ==
    LET field == IF Truthy(row.transactions_count) THEN row.transactions_count
                 ELSE IF Truthy(row.count) THEN row.count ELSE row.clients
    IN  IF IntOk(field) THEN IntOf(field) ELSE 0
RowsRevenue == Total([i \in 1..Len(RowsOfLast) |-> RowRevenue(RowsOfLast[i])], Len(RowsOfLast))
RowsCount == Total([i \in 1..Len(RowsOfLast) |-> RowCount(RowsOfLast[i])], Len(RowsOfLast))

\* the figures of a report come from the list of rows
FromAggList(r) ==
    /\ r.revenue = RowsRevenue
    /\ r.transactions_count = RowsCount
    /\ IF RowsCount = 0 THEN r.avg_check = 0
       ELSE IsTruncatedQuotient(r.avg_check, RowsRevenue, RowsCount)

\* C10 as stated: whenever the response is a list of rows, the figures of the
\* DailyReport are the sums over the rows.
C10_Original ==
    (ImportedOk /\ IsAggList) => \A r \in ReportsOf(last.date) : FromAggList(r)

\* C10, amended: when the response is a list of rows whose revenue total is
\* not negative, the figures of the DailyReport are the sums over the rows;
\* a negative total leaves the figures of the transactions list.
C10_AggregateListPreferred ==
    (last.op = "import" /\ last.resp.tx.st = "ok" /\ last.resp.pay.st = "ok"
     /\ IsAggList) =>
        /\ last.result = "ok"
        /\ ReportsOf(last.date) # {}
        /\ \A r \in ReportsOf(last.date) :
             IF RowsRevenue >= 0 THEN FromAggList(r) ELSE FromTransactions(r)

C10_Witness ==
    /\ ImportedOk /\ IsAggList /\ Len(RowsOfLast) = 2
    /\ RowsRevenue > 0 /\ RowsCount > 1 /\ RawCount = 1
    /\ \E r \in ReportsOf(last.date) :
         r.revenue = RowsRevenue /\ r.revenue # RawRevenue

\* C11: when the spots-sales fetch failed, or its payload is empty, no dict,
\* or a dict whose response is neither a dict with a revenue nor a list, the
\* DailyReport has the length of the transactions list as transactions_count,
\* the sum of the entries' sums (a non-numeric sum counting 0) as revenue,
\* and the avg_check derived from these two.
C11_RawFiguresStand ==
    (/\ last.op = "import" /\ last.resp.tx.st = "ok" /\ last.resp.pay.st = "ok"
     /\ ~IsAggDict /\ ~IsAggList) =>
        /\ last.result = "ok"
        /\ ReportsOf(last.date) # {}
        /\ \A r \in ReportsOf(last.date) : FromTransactions(r)
        /\ last.returned = RawCount

C11_Witness ==
    /\ ImportedOk /\ last.resp.spots_sales.st = "ok"
    /\ SpotsSalesOfLast.rkind = "dict" /\ SpotsSalesOfLast.agg.revenue = JNull
    /\ LET items == _extract_transactions(last.resp.tx.data)
       IN  Len(items) = 2 /\ ~IntOk(items[1].sum) /\ items[2].sum = JInt(MaxAmount)
    /\ \E r \in ReportsOf(last.date) :
         r.transactions_count = 2 /\ r.revenue = MaxAmount

\* the entry of the response that the Transaction row of an identifier is
\* written from: the last one that carries it
LastItemOf(resp, id) ==
    LET items == _extract_transactions(resp.tx.data)
        at == {i \in 1..Len(items) : StrOrEmpty(items[i].transaction_id) = id}
    IN  items[CHOOSE i \in at : \A j \in at : j <= i]

\* the call of an importer has upserted its DailyReport
WroteDailyReport(run) ==
    /\ run.st # "idle"
    /\ \E i \in 1..(run.pc - 1) : run.writes[i].tbl = "DailyReport"

\* C12: an import that repeats, with the same responses, a call that crashed
\* after some of its upserts leaves the tables as the crashed call would have
\* left them had it run to its end; and once a call has upserted its
\* DailyReport, its Transaction rows and its PaymentsReport are in the store.
C12_RetryAfterCrash ==
    /\ (/\ running[1].st = "done"
        /\ last.op = "import" /\ last.retry /\ last.result = "ok")
         => Store = last.expected
    /\ WroteDailyReport(running[1]) =>
         LET run == running[1]
         IN  /\ \A id \in UpstreamIdentifiers(run.resp) \ {JStr(0)} :
                  \E r \in transactions :
                    r.transaction_id = id /\ r.raw = LastItemOf(run.resp, id)
             /\ \E r \in paymentsReports :
                  r.date = run.date /\ r.raw = run.resp.pay.data
             /\ run.pc - 1 = Len(run.writes)
             /\ run.writes[run.pc - 1].tbl = "DailyReport"

C12_Witness ==
    /\ running[1].st = "done"
    /\ last.op = "import" /\ last.retry /\ last.result = "ok"
    /\ last.crashed_after >= 2
    /\ last.crashed_after < Len(running[1].writes) - 1
    /\ Store = last.expected
    /\ \E r \in transactions : r.transaction_id \notin UpstreamIdentifiers(last.resp)
    /\ \E r \in transactions : r.transaction_id \in UpstreamIdentifiers(last.resp)

\* the rows of the table and key of a writer entry
RowsAt(x) ==
    CASE x.tbl = "Spot" -> {r \in spots : r.spot_id = x.key}
      [] x.tbl = "Transaction" ->
            {[r EXCEPT !.id = 0] : r \in {q \in transactions : q.transaction_id = x.key}}
      [] x.tbl = "PaymentsReport" -> {r \in paymentsReports : JInt(r.date) = x.key}
      [] x.tbl = "ProductsSalesReport" ->
            {r \in productsSalesReports : JInt(r.date) = x.key}
      [] x.tbl = "SpotsSalesReport" -> {r \in spotsSalesReports : JInt(r.date) = x.key}
      [] x.tbl = "DailyReport" -> {r \in dailyReports : JInt(r.date) = x.key}

\* the row an importer's call upserted last under the table and key
LastWritten(run, x) ==
    LET at == {i \in 1..(run.pc - 1) :
                 run.writes[i].tbl = x.tbl /\ WriteKey(run.writes[i]) = x.key}
    IN  run.writes[CHOOSE i \in at : \A j \in at : j <= i].row

\* at most one row per date
OneRowPerDate(tbl) == \A r \in tbl : \A q \in tbl : r.date = q.date => r = q

\* both importers have returned from calls for the same date
BothDone ==
    /\ \A p \in Importers : running[p].st = "done"
    /\ running[1].date = running[2].date

\* C13: when the upserts of two imports interleave, every row holds exactly
\* what the call that upserted it last wrote (so the three figures of the
\* DailyReport are those of one call), and no date and no transaction
\* identifier has two rows.
C13_LastWriterWins ==
    /\ \A x \in writer : RowsAt(x) = {LastWritten(running[x.run], x)}
    /\ \A x \in writer : \A y \in writer :
         (x.tbl = y.tbl /\ x.key = y.key) => x = y
    /\ BothDone =>
         \A r \in ReportsOf(running[1].date) :
           \E p \in Importers :
             LET run == running[p]
                 own == run.writes[Len(run.writes)].row
             IN  /\ [tbl |-> "DailyReport", key |-> JInt(r.date), run |-> p] \in writer
                 /\ r.transactions_count = own.transactions_count
                 /\ r.revenue = own.revenue
                 /\ r.avg_check = own.avg_check
                 /\ r.raw_transactions = run.resp.tx.data
    /\ OneRowPerIdentifier(transactions)
    /\ OneRowPerDate(dailyReports) /\ OneRowPerDate(paymentsReports)
    /\ OneRowPerDate(spotsSalesReports)

C13_Witness ==
    /\ BothDone /\ running[1].resp # running[2].resp
    /\ \E x \in writer : \E y \in writer : \E z \in writer :
         /\ x.tbl = "DailyReport" /\ y.tbl = "PaymentsReport"
         /\ z.tbl = "Transaction" /\ z.key = JNumStr(2)
         /\ x.run # y.run /\ z.run # x.run
    /\ Cardinality(transactions) = 3
    /\ Cardinality(ReportsOf(running[1].date)) = 1

\* the Insight rows of a date
InsightsOf(d) == {r \in insights : r.date = d}

HasInsight(d, title) == \E r \in InsightsOf(d) : r.title = title

\* the DailyReport rows of the greatest date strictly before d: an earlier
\* report with no report between it and d
LatestBefore(d) ==
    {p \in dailyReports :
       p.date < d /\ ~\E q \in dailyReports : p.date < q.date /\ q.date < d}

\* generate_insights ran last, for a date that has its DailyReport
InsightsRan == last.op = "insights" /\ ReportsOf(last.date) # {}

\* C14: generate_insights(D) emits the revenue-drop insight exactly when the
\* DailyReport of the greatest date before D exists, has revenue P > 0, and
\* D's revenue C has 10 * (P - C) >= 3 * P; with P = 1000 it is emitted for
\* C = 700 and not for C = 701.
C14_RevenueDrop ==
    InsightsRan =>
        \A c \in ReportsOf(last.date) :
            /\ HasInsight(last.date, "revenue_drop")
                 <=> \E p \in LatestBefore(last.date) :
                       p.revenue > 0 /\ 10 * (p.revenue - c.revenue) >= 3 * p.revenue
            /\ \A p \in LatestBefore(last.date) :
                 /\ (p.revenue = 1000 /\ c.revenue = 700)
                      => HasInsight(last.date, "revenue_drop")
                 /\ (p.revenue = 1000 /\ c.revenue = 701)
                      => ~HasInsight(last.date, "revenue_drop")

C14_Witness ==
    /\ InsightsRan /\ HasInsight(last.date, "revenue_drop")
    /\ \E c \in ReportsOf(last.date) : c.revenue = 700
    /\ \E p \in LatestBefore(last.date) : p.revenue = 1000 /\ p.date = last.date - 2

\* C15 as stated: the average-check-drop insight is emitted exactly when the
\* prior DailyReport exists, its revenue is > 0, and avg_check fell by at
\* least 30% of the prior avg_check (a drop relative to a prior avg_check
\* that is not positive counting as none).
C15_Original ==
    InsightsRan =>
        \A c \in ReportsOf(last.date) :
            HasInsight(last.date, "avg_check_drop")
              <=> \E p \in LatestBefore(last.date) :
                    /\ p.revenue > 0
                    /\ p.avg_check > 0
                    /\ 10 * (p.avg_check - c.avg_check) >= 3 * p.avg_check

\* C15, amended: the average-check-drop insight is emitted exactly when the
\* prior DailyReport exists, its avg_check (whatever its revenue) is > 0, and
\* D's avg_check A has 10 * (prior - A) >= 3 * prior.
C15_AvgCheckDrop ==
    InsightsRan =>
        \A c \in ReportsOf(last.date) :
            HasInsight(last.date, "avg_check_drop")
              <=> \E p \in LatestBefore(last.date) :
                    /\ p.avg_check > 0
                    /\ 10 * (p.avg_check - c.avg_check) >= 3 * p.avg_check

C15_Witness ==
    /\ InsightsRan /\ HasInsight(last.date, "avg_check_drop")
    /\ ~HasInsight(last.date, "revenue_drop")
    /\ \E c \in ReportsOf(last.date) : c.avg_check = 700
    /\ \E p \in LatestBefore(last.date) : p.revenue = 0 /\ p.avg_check = 1000

\* C16: generate_insights for a date without DailyReport returns 0 and
\* leaves every table, the Insight rows included, as it was; it does not
\* raise, whether or not an earlier report exists.
C16_NoReportNoChange ==
    [][(last'.op = "insights" /\ ReportsOf(last'.date) = {})
         => /\ last'.returned = 0
            /\ last'.result = "ok"
            /\ insights' = insights
            /\ nextInsightId' = nextInsightId
            /\ Store' = Store
            /\ dataIssues' = dataIssues]_vars

C16_Witness ==
    /\ last.op = "insights" /\ ReportsOf(last.date) = {} /\ last.returned = 0
    /\ insights # {}
    /\ \E r \in dailyReports : r.date < last.date

\* C17: generate_insights for a date with a DailyReport leaves, for that
\* date, exactly the rows it created (no earlier row of the date is left),
\* at most one per kind; it returns their number, between 0 and 3; the
\* no-sales insight is among them exactly when transactions_count is 0; the
\* rows of other dates are unchanged.
C17_InsightsReplaced ==
    [][(last'.op = "insights" /\ ReportsOf(last'.date) # {})
         => LET D == last'.date
                rows == {r \in insights' : r.date = D}
            IN  /\ \A r \in rows : nextInsightId <= r.id /\ r.id < nextInsightId'
                /\ \A r \in InsightsOf(D) : \A q \in insights' : q.id # r.id
                /\ \A r \in rows : \A q \in rows : r.title = q.title => r = q
                /\ Cardinality(rows) = last'.returned
                /\ last'.returned \in 0..3
                /\ nextInsightId' = nextInsightId + last'.returned
                /\ (\E r \in rows : r.title = "no_sales")
                     <=> \E c \in ReportsOf(D) : c.transactions_count = 0
                /\ {r \in insights' : r.date # D} = {r \in insights : r.date # D}
                /\ dailyReports' = dailyReports]_vars

C17_Witness ==
    /\ InsightsRan /\ last.returned = 3
    /\ Cardinality(InsightsOf(last.date)) = 3
    /\ nextInsightId > 4

\* the stored transactions whose start falls on the date
StartedOn(d) ==
    {tx \in transactions :
       tx.date_start.some /\ tx.date_start.ms >= d * MsPerDay
                          /\ tx.date_start.ms < (d + 1) * MsPerDay}

\* the five payment components of a transaction, added up
PartsOf(tx) ==
    tx.payed_cash + tx.payed_card + tx.payed_bonus + tx.payed_third_party
      + tx.payed_cert

\* the non-ignored issues of the date, of a type and a transaction identifier
OpenOf(d, type, id) ==
    {r \in OpenIssues(dataIssues, d) : r.issue_type = type /\ r.tx = id}

\* C18: after a scan, every stored transaction of the date whose (type,
\* identifier) pair is not ignored has a zero_or_negative_sum issue exactly
\* when status = 2 and sum <= 0, and a payment_mismatch issue exactly when
\* payed_sum > 0 and the five components do not add up to it, one issue of a
\* type at most; a day of one closed zero-sum transaction and one with 500
\* paid and 400 in components has exactly one issue of each type.
C18_PerTransactionChecks ==
    last.op = "scan" =>
        /\ \A tx \in StartedOn(last.date) :
             /\ <<"zero_or_negative_sum", tx.transaction_id>> \notin IgnoredPairs
                  => /\ Cardinality(OpenOf(last.date, "zero_or_negative_sum",
                                           tx.transaction_id))
                          = IF tx.status = 2 /\ tx.sum <= 0 THEN 1 ELSE 0
                     /\ <<"zero_or_negative_sum", tx.transaction_id, 2>> \in last.issues
                          <=> (tx.status = 2 /\ tx.sum <= 0)
             /\ <<"payment_mismatch", tx.transaction_id>> \notin IgnoredPairs
                  => /\ Cardinality(OpenOf(last.date, "payment_mismatch",
                                           tx.transaction_id))
                          = IF tx.payed_sum > 0 /\ PartsOf(tx) # tx.payed_sum
                            THEN 1 ELSE 0
                     /\ <<"payment_mismatch", tx.transaction_id, 2>> \in last.issues
                          <=> (tx.payed_sum > 0 /\ PartsOf(tx) # tx.payed_sum)
        /\ \A r \in OpenIssues(dataIssues, last.date) :
             r.issue_type \in {"zero_or_negative_sum", "payment_mismatch"}
               => \E tx \in StartedOn(last.date) : tx.transaction_id = r.tx
        /\ last.returned = Cardinality(OpenIssues(dataIssues, last.date))
        /\ (/\ IgnoredPairs = {}
            /\ ReportsOf(last.date) = {} \/ \E c \in ReportsOf(last.date) : c.transactions_count # 0
            /\ \E a \in StartedOn(last.date) : \E b \in StartedOn(last.date) :
                 /\ StartedOn(last.date) = {a, b}
                 /\ a.status = 2 /\ a.sum = 0 /\ a.payed_sum = 0
                 /\ b.sum > 0 /\ b.payed_sum = 500 /\ PartsOf(b) = 400
                 /\ ~a.raw.history_move /\ ~b.raw.history_move)
             => {r.issue_type : r \in OpenIssues(dataIssues, last.date)}
                  = {"zero_or_negative_sum", "payment_mismatch"}
                /\ last.returned = 2

C18_Witness ==
    /\ last.op = "scan" /\ last.returned = 2
    /\ \E a \in StartedOn(last.date) : \E b \in StartedOn(last.date) :
         /\ StartedOn(last.date) = {a, b}
         /\ a.status = 2 /\ a.sum = 0
         /\ b.payed_sum = 500 /\ PartsOf(b) = 400
         /\ Cardinality(OpenOf(last.date, "zero_or_negative_sum", a.transaction_id)) = 1
         /\ Cardinality(OpenOf(last.date, "payment_mismatch", b.transaction_id)) = 1
    /\ Cardinality(OpenIssues(dataIssues, last.date)) = 2

\* the date has an ignored no_transactions issue
NoTransactionsIgnored(d) ==
    \E r \in dataIssues : r.date = d /\ r.ignored /\ r.issue_type = "no_transactions"

\* C19: a scan reports a no_transactions issue exactly when the date has a
\* DailyReport with transactions_count = 0 and no ignored no_transactions
\* issue; without a DailyReport of the date the scan still reports the
\* issues of the transactions and no no_transactions issue.
C19_NoTransactions ==
    last.op = "scan" =>
        /\ (\E key \in last.issues : key[1] = "no_transactions")
             <=> /\ \E c \in ReportsOf(last.date) : c.transactions_count = 0
                 /\ ~NoTransactionsIgnored(last.date)
        /\ (\E r \in OpenIssues(dataIssues, last.date) : r.issue_type = "no_transactions")
             <=> (\E key \in last.issues : key[1] = "no_transactions")
        /\ ReportsOf(last.date) = {} =>
             /\ \A r \in OpenIssues(dataIssues, last.date) :
                  r.issue_type # "no_transactions"
             /\ \A tx \in StartedOn(last.date) :
                  (/\ tx.status = 2 /\ tx.sum <= 0
                   /\ <<"zero_or_negative_sum", tx.transaction_id>> \notin IgnoredPairs)
                    => OpenOf(last.date, "zero_or_negative_sum", tx.transaction_id) # {}

C19_Witness ==
    /\ last.op = "scan"
    /\ \E c \in ReportsOf(last.date) : c.transactions_count = 0
    /\ NoTransactionsIgnored(last.date)
    /\ \A key \in last.issues : key[1] # "no_transactions"
    /\ OpenIssues(dataIssues, last.date) = {}

\* the rows of a stored spots-sales payload: the list under "response", or
\* the list under "spots" of the dict under "response"
PayloadRows(raw) ==
    IF raw.top = "dict" /\ raw.rkind = "list" THEN raw.rows
    ELSE IF raw.top = "dict" /\ raw.rkind = "dict" /\ raw.agg.spots.kind = "list"
    THEN raw.agg.spots.rows
    ELSE <<>>

\* the rows of the stored spots-sales payload of day d that carry a location
\* identifier
LocatedRows(d) ==
    IF \E r \in spotsSalesReports : r.date = d
    THEN SelectSeq(PayloadRows((CHOOSE r \in spotsSalesReports : r.date = d).raw),
                   LAMBDA row : IsDictRow(row)
                                /\ (Truthy(row.spot_id) \/ Truthy(row.id)))
    ELSE <<>>

\* C20: daily_summary_by_spot returns the breakdown of the stored
\* spots-sales payload of the day when that payload has at least one row
\* with a location identifier, and the breakdown computed from the stored
\* transactions of the day in every other case; it never mixes the two.
C20_Original ==
    last.op = "summary" =>
        /\ last.result = "none"
        /\ last.summary =
             IF LocatedRows(last.date) # <<>>
             THEN ReportSummary(LocatedRows(last.date))
             ELSE FallbackSummary({tx \in transactions
                                     : OnDate(tx.date_start, last.date)})

RECURSIVE SumField(_, _)
\* the sum of one column over a set of rows
SumField(S, field) ==
    IF S = {} THEN 0
    ELSE LET x == CHOOSE x \in S : TRUE
         IN  x[field] + SumField(S \ {x}, field)

\* the location a stored transaction is counted under
LocationOf(tx) == IF tx.spot_id = JStr(0) THEN UnknownSpot ELSE tx.spot_id

\* the last call was a summary that returned the transaction-derived
\* breakdown
FellBack ==
    last.op = "summary" /\ last.result = "none" /\ LocatedRows(last.date) = <<>>

\* C21: in the transaction-derived fallback every stored transaction of the
\* day is counted in exactly one location entry (its spot_id, or "unknown"
\* when that is empty): the transactions values add up to the number of
\* transactions, revenue adds up to the sum of all their sums, a transaction
\* is a return exactly when its status is 3 or its sum is negative, and no
\* location has more returns than transactions.
C21_FallbackCounts ==
    FellBack =>
        LET day == StartedOn(last.date)
            returned == {tx \in day : tx.status = 3 \/ tx.sum < 0}
        IN  /\ \A tx \in day :
                 Cardinality({e \in last.summary : e.spot_id = LocationOf(tx)}) = 1
            /\ \A e \in last.summary : \E tx \in day : e.spot_id = LocationOf(tx)
            /\ SumField(last.summary, "transactions") = Cardinality(day)
            /\ SumField(last.summary, "revenue") = SumField(day, "sum")
            /\ SumField(last.summary, "returns") = Cardinality(returned)
            /\ SumField(last.summary, "returns_sum") = SumField(returned, "sum")
            /\ \A e \in last.summary :
                 /\ e.transactions =
                      Cardinality({tx \in day : LocationOf(tx) = e.spot_id})
                 /\ e.returns =
                      Cardinality({tx \in returned : LocationOf(tx) = e.spot_id})
                 /\ e.returns <= e.transactions

\* a fallback over a day with two locations, one of them "unknown", a
\* return by status with a positive sum and a return by sign alone
C21_Witness ==
    /\ FellBack
    /\ \E e \in last.summary : e.spot_id = UnknownSpot /\ e.returns = 2
    /\ \E e \in last.summary :
         e.spot_id # UnknownSpot /\ e.returns = 1 /\ e.transactions = 3
    /\ \E tx \in StartedOn(last.date) : tx.status = 3 /\ tx.sum > 0
    /\ \E tx \in StartedOn(last.date) : tx.status # 3 /\ tx.sum < 0

\* every fetch the last import made returned a payload
AllFetched(resp) ==
    \A f \in {resp.tx, resp.pay, resp.prod, resp.spots_sales, resp.spots} :
        f.st # "APIError"

\* C22: whatever the shape of a successfully fetched payload, import_daily
\* and daily_summary_by_spot do not raise, and import_daily writes the
\* DailyReport of the date.
C22_Original ==
    /\ (last.op = "import" /\ AllFetched(last.resp)) =>
          last.result = "ok" /\ ReportsOf(last.date) # {}
    /\ last.op = "summary" => last.result = "none"

\* the three recognized auth styles
RecognizedStyles == {"query_token", "query_access_token", "bearer"}

\* C23: request fails with ConfigError before any HTTP call when the base
\* URL, the credential or the auth style of the client is absent or the
\* style is not a recognized one; otherwise it makes exactly one HTTP call,
\* fails with APIError when the call fails in transport, returns a non-2xx
\* status or a body that is no JSON, and returns the parsed JSON otherwise.
C23_Original ==
    last.op = "request" =>
        IF \/ last.client.base_url = "" \/ last.client.token = ""
           \/ last.client.auth_style \notin RecognizedStyles
        THEN last.result = "ConfigError" /\ last.http.calls = 0
        ELSE /\ last.http.calls = 1
             /\ last.result = IF last.http.outcome = "json" THEN "ok" ELSE "APIError"

\* the persisted tables
Tables ==
    <<transactions, spots, paymentsReports, productsSalesReports,
      spotsSalesReports, dailyReports, dataIssues, insights>>

\* C24: build_report_text and build_custom_report_text change nothing in
\* the store, and for a date without DailyReport they return the fixed "no
\* data" message of that date instead of raising, whatever the configuration
\* and whatever other rows exist for the date.
C24_Original ==
    [][last'.op \in {"text", "custom_text"} =>
         /\ Tables' = Tables
         /\ ReportsOf(last'.date) = {} =>
              last'.result = "none" /\ last'.text = NoDataText(last'.date)]_vars

\* the run got a payload from the fetch: the fetch was made, did not fail
\* and returned something that is not empty
Obtained(fetch) == fetch.st = "ok" /\ fetch.data.top # "empty"

\* the rows of a by-date table for one date
RowsOn(tbl, d) == {r \in tbl : r.date = d}

\* C25: an import that obtains no products-sales payload, or no spots-sales
\* payload, neither creates, modifies nor deletes the ProductsSalesReport,
\* respectively SpotsSalesReport, of the date: the row of an earlier run
\* stays, while the DailyReport of the date is overwritten with the figures
\* of this run.
C25_AbsentPayloadLeavesRow ==
    [][last'.op = "import" =>
         /\ ~Obtained(last'.resp.prod) =>
              RowsOn(productsSalesReports', last'.date)
                = RowsOn(productsSalesReports, last'.date)
         /\ ~Obtained(last'.resp.spots_sales) =>
              RowsOn(spotsSalesReports', last'.date)
                = RowsOn(spotsSalesReports, last'.date)
         /\ (last'.result = "ok" /\ ~Obtained(last'.resp.prod)
               /\ ~Obtained(last'.resp.spots_sales)) =>
              \E r \in dailyReports' :
                 /\ r.date = last'.date
                 /\ r.raw_products_sales = EmptyDict
                 /\ r.transactions_count
                      = Len(_extract_transactions(last'.resp.tx.data))]_vars

\* an import without either payload ended over rows of an earlier run: the
\* stored spots-sales aggregate says 3 transactions, the DailyReport 2
C25_Witness ==
    /\ last.op = "import" /\ last.result = "ok"
    /\ ~Obtained(last.resp.prod) /\ ~Obtained(last.resp.spots_sales)
    /\ last.resp.prod.st = "ok" /\ last.resp.spots_sales.st = "ok"
    /\ RowsOn(productsSalesReports, last.date) # {}
    /\ \E r \in RowsOn(spotsSalesReports, last.date) : r.raw.rkind = "list"
    /\ \E r \in dailyReports : r.date = last.date /\ r.transactions_count = 2

\* the bounds of the last range, in order
RangeLow == IF last.range.date_from > last.range.date_to
            THEN last.range.date_to ELSE last.range.date_from
RangeHigh == IF last.range.date_from > last.range.date_to
             THEN last.range.date_from ELSE last.range.date_to

\* import_daily raises for the date
ImportRaises(d) == ImportRun(d, last.range.resps[d]).result # "ok"

\* the last date the range gets to: the first one whose import raises, or
\* the upper bound
RangeStop ==
    IF \E d \in RangeLow..RangeHigh : ImportRaises(d)
    THEN CHOOSE d \in RangeLow..RangeHigh :
            ImportRaises(d) /\ \A e \in RangeLow..(d - 1) : ~ImportRaises(e)
    ELSE RangeHigh

\* import, scan, insights for each date from lo to hi, in ascending order
RECURSIVE FullTrace(_, _)
FullTrace(lo, hi) ==
    IF lo > hi THEN <<>>
    ELSE <<Step("import", lo), Step("scan", lo), Step("insights", lo)>>
         \o FullTrace(lo + 1, hi)

\* C26: a date-range import from the dashboard processes every date between
\* the two bounds (swapped when out of order) once and in ascending order,
\* running import_daily, scan_anomalies and generate_insights for a date
\* before the next date; when import_daily raises for a date no later date
\* is processed and the rows of the earlier dates remain.
C26_Original ==
    (last.op = "range" /\ last.range.account) =>
        IF \E d \in RangeLow..RangeHigh : ImportRaises(d)
        THEN /\ last.trace = Append(FullTrace(RangeLow, RangeStop - 1),
                                    Step("import", RangeStop))
             /\ \A d \in RangeLow..(RangeStop - 1) :
                  \E r \in dailyReports :
                     r.date = d /\ r.raw_transactions = last.range.resps[d].tx.data
        ELSE last.trace = FullTrace(RangeLow, RangeHigh)

\* C27: however scan_anomalies(D), in its steps, and the ignore and restore
\* buttons interleave, no two DataIssue rows share date, issue type and
\* transaction identifier; in particular no open row stands beside an
\* ignored row of the same triple.
C27_Original ==
    \A r \in dataIssues : \A q \in dataIssues :
        (r.date = q.date /\ r.issue_type = q.issue_type /\ r.tx = q.tx) => r = q

\* C28: after import_daily(D) and scan_anomalies(D), an open no_transactions
\* issue exists for D only if no stored transaction started on D, whatever
\* the upstream responses were, a spots-sales aggregate that is an empty
\* list or counts zero transactions included.
C28_Original ==
    (last.op = "scan" /\ ReportsOf(last.date) # {}) =>
        ((\E i \in dataIssues :
             i.date = last.date /\ i.issue_type = "no_transactions" /\ ~i.ignored)
           => StartedOn(last.date) = {})

\* the Transaction rows whose identifier an entry of the last response carries
UpsertedRows ==
    {r \in transactions : r.transaction_id \in UpstreamIdentifiers(last.resp) \ {JStr(0)}}

\* C29: the value import_daily returns is the transactions_count of the
\* DailyReport it wrote; on the raw-sum path that count and the revenue run
\* over every entry of the response list, entries without identifier and
\* entries repeating an identifier included, so the count can exceed the
\* number of Transaction rows the run upserted.
C29_CountsEveryEntry ==
    (last.op = "import" /\ last.result = "ok") =>
        /\ ReportsOf(last.date) # {}
        /\ \A r \in ReportsOf(last.date) :
             /\ r.transactions_count = last.returned
             /\ last.resp.spots_sales.st # "ok" =>
                  /\ r.transactions_count = RawCount
                  /\ r.revenue = RawRevenue
                  /\ r.transactions_count >= Cardinality(UpsertedRows)

\* three entries, one without identifier and two with the same one: the
\* DailyReport counts 3 and sums all three, one Transaction row was upserted
C29_Witness ==
    /\ last.op = "import" /\ last.result = "ok"
    /\ last.resp.spots_sales.st # "ok"
    /\ JStr(0) \in UpstreamIdentifiers(last.resp)
    /\ Cardinality(UpstreamIdentifiers(last.resp)) = 2
    /\ last.returned = 3
    /\ Cardinality(UpsertedRows) = 1
    /\ \E r \in ReportsOf(last.date) : r.transactions_count = 3 /\ r.revenue = 999

\* C30: scan_anomalies(D) and the fallback of daily_summary_by_spot(D) work
\* on exactly the stored transactions whose start falls on D: the issues of a
\* scan are those of the transactions that start on D (and of the DailyReport),
\* none of them names a transaction without a start or with a start on another
\* day, and the fallback summary is the one of the transactions that start on
\* D; this for every date, so a transaction without a start belongs to none.
C30_OnlyTheDate ==
    /\ last.op = "scan" =>
         /\ last.issues =
              IssueKeys(ScanIssues(last.date, StartedOn(last.date),
                                   dailyReports, last.existing_ignored))
         /\ \A tx \in transactions \ StartedOn(last.date) :
              \A k \in last.issues : k[2] # tx.transaction_id
    /\ FellBack => last.summary = FallbackSummary(StartedOn(last.date))

\* the import of the date stored two transactions with a zero sum, one
\* without a start and one that starts on another day; the scan of the date
\* created no issue
C30_Witness ==
    /\ last.op = "scan"
    /\ \E r \in dailyReports : r.date = last.date /\ r.transactions_count = 2
    /\ StartedOn(last.date) = {}
    /\ \E tx \in transactions : ~tx.date_start.some /\ ZeroOrNegativeSum(tx)
    /\ \E tx \in transactions :
         /\ tx.date_start.some
         /\ ~OnDate(tx.date_start, last.date)
         /\ ZeroOrNegativeSum(tx)
    /\ last.returned = 0
    /\ last.issues = {}

====
